---- MODULE Spec2Model ----
(***************************************************************************)
(* A model of custom-build.js, the ExtJS bundler of darshan4295/CMDAPP:     *)
(* the file index, the worklist dependency graph builder, the wildcard      *)
(* expansion, the topological sorter, the bundle assembler and the build    *)
(* id / manifest step of buildExtApp.                                       *)
(*                                                                         *)
(* Class names are sequences of one-character strings, so that endsWith,    *)
(* slice and startsWith act on characters as they do in the code.           *)
(***************************************************************************)
EXTENDS Integers, Sequences, FiniteSets, TLC

VARIABLES
    \* ---- the inputs of one build (fixed once chosen) ----
    files,            \* path -> what the file on disk holds
    entryFile,        \* what the application entry file holds
    unlistable,       \* the directories fs.readdir fails on
    unwritable,       \* the output artifacts whose write fails
    \* ---- buildExtApp's locals ----
    entryClassName,   \* the name buildExtApp starts graph building from
    \* ---- buildExtApp's position ----
    pc,
    \* ---- buildFileIndex ----
    fileIndex,        \* the Map className -> {path, isExtJS}, in insertion order
    idxPos,           \* how many discovered files have been indexed
    \* ---- addExtJSCoreFiles ----
    coreFiles,
    \* ---- buildDependencyGraphFromEntry ----
    queue, visited, processing, requiredClasses, requiredFiles, classToFileMap,
    unresolved,       \* the names logged "Could not find file for class"
    finalized,        \* the names that passed lines 1105-1106, in order
    \* ---- buildExtApp: merge and deduplication ----
    finalUniqueFiles,
    \* ---- topologicalSortRequired ----
    sortInput, keyPos, stack, sVisited, visiting, sortedRegular, dropped, sortedFiles,
    \* ---- concatenateRequiredFiles, build id, manifest ----
    bundle, clock, finalJs, finalCss, buildId, manifest, written, runs,
    \* ---- expandWildcardDependencies run alone ----
    wDependencies, wKeys, wExpanded,
    \* ---- extractDependenciesFromConfig run alone ----
    configObject,     \* the properties of a registration call's config object
    extracted,        \* the dependency list extracted from it
    \* ---- addExtJSCoreFiles run alone ----
    aExtFs,           \* what lies under the framework root
    aForceMinimalCore, \* config.forceMinimalCore
    \* ---- the module-level caches, over the calls of buildExtApp in one process ----
    diskText,         \* the text now on disk in one source file
    fileContentCache, \* the entry of that file in the content cache
    globalClassToFileMap, \* the entry of the file's class in the module-level map
    builds,           \* each call of buildExtApp: its position and what it holds
    \* ---- the assembled bundle, running in a page ----
    page              \* Ext.define, the guard's variables, and the last call made

vars == << files, entryClassName, pc, fileIndex, idxPos, coreFiles,
           queue, visited, processing, requiredClasses, requiredFiles,
           classToFileMap, unresolved, finalUniqueFiles,
           sortInput, keyPos, stack, sVisited, visiting, sortedRegular,
           dropped, sortedFiles,
           bundle, clock, finalJs, finalCss, buildId, manifest, written, runs,
           wDependencies, wKeys, wExpanded,
           entryFile, unlistable, unwritable, finalized,
           configObject, extracted, aExtFs, aForceMinimalCore,
           diskText, fileContentCache, globalClassToFileMap, builds, page >>

\* the variables of expandWildcardDependencies run alone
wvars == << wDependencies, wKeys, wExpanded >>

\* what the build finds on disk and does not change
envvars == << entryFile, unlistable, unwritable >>

cvars == << configObject, extracted >>

avars == << aExtFs, aForceMinimalCore >>

svars == << diskText, fileContentCache, globalClassToFileMap, builds >>

(***************************************************************************)
(* Bounds of the model.                                                     *)
(***************************************************************************)
\* the most strings, and the most properties, a config object holds
MaxConfigEntries == 2

\* the calls of Ext.define, and of internalAttemptWrapExtDefine, in a page
MaxDefines == 3
MaxAttempts == 2

\* the calls of buildExtApp made in one process
MaxBuilds == 2

\* the texts one source file has on disk, one after the other
MaxVersions == 2

\* the essential core files followed, of the five of essentialCoreFiles
MaxCoreFiles == 2

\* the longest dependency list one registration call declares
MaxDeps == 2
\* the most dependency entries the files of one build declare together
MaxEdges == 3
\* the most files handed to topologicalSortRequired when it is run alone
MaxSortFiles == 3
\* the longest name, in characters, when expandWildcardDependencies is run alone
MaxNameLen == 3
\* the most builds one behaviour runs
MaxRuns == 2
\* the most keys of the index when expandWildcardDependencies is run alone
MaxKeys == 2
\* the longest final JS text, in bytes, when the output step is run alone
MaxTextLen == 2

(***************************************************************************)
(* Sequence helpers (JavaScript array and string methods).                  *)
(***************************************************************************)
Range(s) == { s[i] : i \in 1..Len(s) }

\* String.prototype.startsWith
StartsWith(s, pre) ==
    /\ Len(pre) <= Len(s)
    /\ SubSeq(s, 1, Len(pre)) = pre

\* String.prototype.endsWith
EndsWith(s, suf) ==
    /\ Len(suf) <= Len(s)
    /\ SubSeq(s, Len(s) - Len(suf) + 1, Len(s)) = suf

\* [...new Set(s)]: the first occurrence of every element, in order
\* (each list is computed once: the value is bound by the set it is drawn from)
RECURSIVE UniqueOf(_)
UniqueOf(s) ==
    IF s = << >> THEN << >>
    ELSE CHOOSE u \in { IF s[Len(s)] \in Range(r) THEN r ELSE Append(r, s[Len(s)]) :
                          r \in { UniqueOf(SubSeq(s, 1, Len(s) - 1)) } } : TRUE

Unique(s) == CHOOSE u \in { UniqueOf(t) : t \in { s } } : TRUE

\* Set.prototype.add on a Set kept in insertion order
SetAdd(s, x) == IF x \in Range(s) THEN s ELSE Append(s, x)

NoDup(s) == \A i, j \in 1..Len(s) : i # j => s[i] # s[j]

\* all sequences over S of length at most n
SeqsUpTo(S, n) == UNION { [1..k -> S] : k \in 0..n }

(***************************************************************************)
(* Names.  A qualified name is a string; here a sequence of characters.     *)
(***************************************************************************)
nA == << "N", ".", "A" >>          \* application class N.A
nB == << "N", ".", "B" >>          \* application class N.B
nX == << "E", ".", "X" >>          \* framework class E.X
wN == << "N", ".", "*" >>          \* the wildcard dependency N.*

\* the names a registration call may declare
ClassNames == { nA, nB, nX }
\* the names a dependency list may hold
DepNames == ClassNames \cup { wN }
\* the names buildExtApp may start from
EntryNames == { nA }

(***************************************************************************)
(* The files of a build.  buildFileIndex walks the framework roots first    *)
(* and the application roots after them (lines 378-394); within a root the  *)
(* order is the directory order.  Discovery lists the files in that order.  *)
(* A file holds at most one registration call ("the single recognized call  *)
(* expression per file").                                                   *)
(***************************************************************************)
Discovery ==
    << [path |-> "ext/X.js", isExtJS |-> TRUE],
       [path |-> "app/a1.js", isExtJS |-> FALSE],
       [path |-> "app/a2.js", isExtJS |-> FALSE] >>

Paths == { Discovery[i].path : i \in 1..Len(Discovery) }

\* what a file holds: text Babel cannot parse, text without a registration
\* call, or one Ext.define(className, {...}) with its dependency list
NoDefine(kind) == [kind |-> kind, className |-> << >>, dependencies |-> << >>]

\* a framework file registers a framework class, an application file an
\* application class
DeclarableNames(d) == IF d.isExtJS THEN { nX } ELSE { nA, nB }

FileContents(d) ==
    { NoDefine("unparsable"), NoDefine("plain") }
    \cup { [kind |-> "define", className |-> n, dependencies |-> deps] :
             n \in DeclarableNames(d), deps \in SeqsUpTo(DepNames, MaxDeps) }

\* the contents of the first i discovered files, declaring at most budget
\* dependency entries together
RECURSIVE ContentsUpTo(_, _)
ContentsUpTo(i, budget) ==
    IF i = 0 THEN { << >> }
    ELSE UNION { { Append(g, c) : g \in ContentsUpTo(i - 1, budget - Len(c.dependencies)) } :
                 c \in { x \in FileContents(Discovery[i]) :
                           Len(x.dependencies) <= budget } }

PosOf(path) == CHOOSE i \in 1..Len(Discovery) : Discovery[i].path = path

FileSystems ==
    { [p \in Paths |-> g[PosOf(p)]] : g \in ContentsUpTo(Len(Discovery), MaxEdges) }

(***************************************************************************)
(* indexJsFilesInDirectory (lines 422-505).                                 *)
(***************************************************************************)
\* lines 455-475: the name inferred from a framework file's path
InferredName(path) == nX

\* Map.prototype.get on the index
IndexHas(idx, name) == \E i \in 1..Len(idx) : idx[i].className = name
IndexGet(idx, name) == idx[CHOOSE i \in 1..Len(idx) : idx[i].className = name]
IndexKeys(idx) == [i \in 1..Len(idx) |-> idx[i].className]

\* Map.prototype.set (line 478): a new key is appended; an existing key keeps
\* its place in the iteration order and takes the new value
IndexSet(idx, name, path, isExtJS) ==
    LET e == [className |-> name, path |-> path, isExtJS |-> isExtJS]
    IN  IF IndexHas(idx, name)
        THEN [i \in 1..Len(idx) |-> IF idx[i].className = name THEN e ELSE idx[i]]
        ELSE Append(idx, e)

\* a name inferred from the path whatever the origin of the file
IndexedNameAnyOrigin(d, content) ==
    IF content.kind \in { "unreadable", "unparsable" } THEN << >>
    ELSE IF content.kind = "define" THEN content.className
    ELSE InferredName(d.path)

\* lines 438-483: the class name one discovered file is indexed under
\* (<< >> when it gets no entry)
IndexedName(d, content) ==
    IF content.kind \in { "unreadable", "unparsable" } THEN << >>
    ELSE IF content.kind = "define" THEN content.className
    ELSE IF d.isExtJS THEN InferredName(d.path)
    ELSE << >>

\* one iteration of walkDir's loop over a .js file
IndexOneFile(idx, d, content) ==
    LET name == IndexedName(d, content)
    IN  IF name = << >> THEN idx ELSE IndexSet(idx, name, d.path, d.isExtJS)

(***************************************************************************)
(* expandWildcardDependencies (lines 1038-1081).                            *)
(***************************************************************************)
IsWildcard(dep) == EndsWith(dep, << ".", "*" >>)

\* an expansion that compares the prefix alone
WildcardMatchesNoDot(dep, keys) ==
    LET prefix == SubSeq(dep, 1, Len(dep) - 2)
        Match(className) == StartsWith(className, prefix)
    IN  SelectSeq(keys, Match)

\* lines 1047-1061: the index keys matching one wildcard, in index order
WildcardMatches(dep, keys) ==
    LET prefix == SubSeq(dep, 1, Len(dep) - 2)
        Match(className) == StartsWith(className, prefix \o << "." >>)
    IN  SelectSeq(keys, Match)

RECURSIVE ExpandAll(_, _)
ExpandAll(dependencies, keys) ==
    IF dependencies = << >> THEN << >>
    ELSE LET dep == Head(dependencies)
         IN  (IF IsWildcard(dep) THEN WildcardMatches(dep, keys) ELSE << dep >>)
             \o ExpandAll(Tail(dependencies), keys)

\* a list handed on as it was declared
DependenciesAsDeclared(dependencies, keys) == dependencies

expandWildcardDependencies(dependencies, keys) ==
    Unique(ExpandAll(dependencies, keys))

(***************************************************************************)
(* addExtJSCoreFiles (lines 611-680).  extFs says what lies under the       *)
(* framework root: for each bundle candidate, in the order of               *)
(* possibleBundles, and for each essential core source file, whether it is  *)
(* absent, unreadable or readable.                                          *)
(***************************************************************************)
BundleNames ==
    << "ext_all_debug_js", "ext_all_js", "ext_all_debug_js", "ext_all_js", "ext_js" >>
BundlePaths ==
    << "/ext/build/ext-all-debug.js", "/ext/build/ext-all.js",
       "/ext/ext-all-debug.js", "/ext/ext-all.js", "/ext/ext.js" >>

CoreFile(className, filePath, priority) ==
    [className |-> className, filePath |-> filePath, isExtJS |-> TRUE,
     isCore |-> TRUE, priority |-> priority, dependencies |-> << >>,
     content |-> filePath]

\* lines 1035 and 1334: sort((a, b) => a.priority - b.priority), a stable sort
\* file put after the last entry of sorted whose priority is not above its own
InsertByPriority(sorted, file) ==
    LET before == { i \in 1..Len(sorted) : sorted[i].priority <= file.priority }
        k == IF before = {} THEN 0
             ELSE CHOOSE i \in before : \A j \in before : j <= i
    IN  SubSeq(sorted, 1, k) \o << file >> \o SubSeq(sorted, k + 1, Len(sorted))

RECURSIVE SortByPriority(_)
SortByPriority(fs) ==
    IF fs = << >> THEN << >>
    ELSE CHOOSE r \in { InsertByPriority(sorted, fs[Len(fs)]) :
                          sorted \in { SortByPriority(SubSeq(fs, 1, Len(fs) - 1)) } } :
            TRUE

\* lines 993-999: the essential core files (all of them are critical files
\* of createMinimalExtJSBootstrap too, lines 686-700), the first MaxCoreFiles
CoreNames == << "Ext_js", "Class_js", "Base_js", "ClassManager_js", "Loader_js" >>
CorePaths ==
    << "/ext/packages/core/src/Ext.js", "/ext/packages/core/src/class/Class.js",
       "/ext/packages/core/src/class/Base.js",
       "/ext/packages/core/src/class/ClassManager.js",
       "/ext/packages/core/src/Loader.js" >>

\* lines 739-783: the critical files that exist and can be read
foundCriticalFiles(extFs) ==
    Cardinality({ i \in 1..MaxCoreFiles : extFs.core[i] = "ok" })

\* createMinimalExtJSBootstrap (lines 682-987): the text returned
createMinimalExtJSBootstrap(extFs) ==
    IF foundCriticalFiles(extFs) = 0 THEN "ultra_minimal_bootstrap"
    ELSE "bootstrap_of_critical_files"

\* lines 1001-1026: the core files found, in the order of essentialCoreFiles
RECURSIVE CoreFilesFound(_, _)
CoreFilesFound(extFs, n) ==
    IF n = 0 THEN << >>
    ELSE CoreFilesFound(extFs, n - 1)
         \o (IF extFs.core[n] = "ok"
             THEN << CoreFile(<< "__CORE_", CoreNames[n] >>, CorePaths[n], n) >>
             ELSE << >>)

\* collectIndividualCoreFiles (lines 989-1036)
collectIndividualCoreFiles(extFs) ==
    SortByPriority(CoreFilesFound(extFs, MaxCoreFiles))

LastReadableBundle(extFs) ==
    LET ok == { i \in 1..Len(BundlePaths) : extFs.bundles[i] = "ok" }
    IN  IF ok = {} THEN 0 ELSE CHOOSE i \in ok : \A j \in ok : j <= i

\* lines 624-652: the first candidate that exists and can be read
FirstReadableBundle(extFs) ==
    LET ok == { i \in 1..Len(BundlePaths) : extFs.bundles[i] = "ok" }
    IN  IF ok = {} THEN 0 ELSE CHOOSE i \in ok : \A j \in ok : i <= j

\* the bundle search of lines 615-655 ends in the return of line 646
BundleIsUsed(extFs, forceMinimalCore) ==
    ~forceMinimalCore /\ FirstReadableBundle(extFs) # 0

addExtJSCoreFiles(extFs, forceMinimalCore) ==
    LET b == FirstReadableBundle(extFs)
        bootstrapContent == createMinimalExtJSBootstrap(extFs)
    IN  IF BundleIsUsed(extFs, forceMinimalCore)
        THEN << CoreFile(<< "__CORE_BUNDLE_", BundleNames[b] >>, BundlePaths[b], 0) >>
        \* line 661: if (bootstrapContent)
        ELSE IF bootstrapContent # ""
        THEN << CoreFile(<< "__CORE_MINIMAL_BOOTSTRAP" >>, "__minimal_bootstrap__", 0) >>
        ELSE collectIndividualCoreFiles(extFs)

\* a framework root with no bundle and no core source file
NoExt ==
    [bundles |-> [i \in 1..Len(BundlePaths) |-> "absent"],
     core |-> [i \in 1..MaxCoreFiles |-> "absent"]]

\* the framework roots a build may meet
ExtScenarios ==
    { [bundles |-> << "absent", "ok", "absent", "ok", "absent" >>,
       core |-> [i \in 1..MaxCoreFiles |-> "ok"]],
      [bundles |-> << "absent", "absent", "absent", "absent", "absent" >>,
       core |-> [i \in 1..MaxCoreFiles |-> "ok"]],
      [bundles |-> << "unreadable", "absent", "absent", "absent", "absent" >>,
       core |-> [i \in 1..MaxCoreFiles |-> "absent"]] }

(***************************************************************************)
(* buildDependencyGraphFromEntry (lines 1083-1270).                         *)
(***************************************************************************)
\* parseJsFile (lines 573-607): the classes registered in a file
ParsedClasses(content) ==
    IF content.kind = "define"
    THEN << [name |-> content.className, dependencies |-> content.dependencies] >>
    ELSE << >>

\* lines 1161-1165: the class looked for in the parsed file
FindClassInfo(classes, currentClass) ==
    LET hit == { i \in 1..Len(classes) : classes[i].name = currentClass }
    IN  IF hit # {} THEN << classes[CHOOSE i \in hit : \A j \in hit : i <= j] >>
        ELSE IF Len(classes) = 1 THEN << classes[1] >>
        ELSE << >>

\* a builder that takes every file for included already
FileAlwaysIncluded(reqFiles, path) == TRUE

\* line 1180: requiredFiles.find(f => f.filePath === fileInfo.path)
FileAlreadyIncluded(reqFiles, path) ==
    \E i \in 1..Len(reqFiles) : reqFiles[i].filePath = path

\* a push of every new dependency, in the queue or not
EnqueueAll(q, newDependencies) == q \o newDependencies

\* lines 1196-1200: push every new dependency the queue does not hold yet
RECURSIVE EnqueueNew(_, _)
EnqueueNew(q, newDependencies) ==
    IF newDependencies = << >> THEN q
    ELSE EnqueueNew(SetAdd(q, Head(newDependencies)), Tail(newDependencies))

\* a loop that ends at the first name it cannot find
StopAtUnresolved(rest) == << >>

\* lines 1110-1133: after a name that is not in the index the loop continues
\* with the rest of the queue
ContinueAfterUnresolved(rest) == rest

\* a visited set that answers no to every name
VisitedHasNever(vis, name) == FALSE

\* visited.has(name), at lines 1096 and 1176
VisitedHas(vis, name) == name \in vis

\* lines 1096-1103: the two skips at the head of the loop body
SkipDequeued(currentClass) ==
    VisitedHas(visited, currentClass) \/ currentClass \in processing

RequiredFile(className, fileInfo, dependencies) ==
    [className |-> className, filePath |-> fileInfo.path,
     isExtJS |-> fileInfo.isExtJS, isCore |-> FALSE, priority |-> 0,
     dependencies |-> dependencies, content |-> fileInfo.path]

\* one iteration of the while loop (lines 1093-1213)
GraphStep ==
    /\ pc = "graph"
    /\ queue # << >>
    /\ LET currentClass == Head(queue)
           rest == Tail(queue)
       IN
       IF SkipDequeued(currentClass)
       THEN /\ queue' = rest
            /\ UNCHANGED << visited, processing, requiredClasses, requiredFiles,
                            classToFileMap, unresolved, finalized >>
       ELSE
       \* lines 1105-1106; processing.delete at 1131, 1144 and 1212
       /\ finalized' = Append(finalized, currentClass)
       /\ visited' = visited \cup { currentClass }
       /\ processing' = (processing \cup { currentClass }) \ { currentClass }
       /\ IF ~IndexHas(fileIndex, currentClass)
          THEN /\ unresolved' = unresolved \cup { currentClass }
               /\ queue' = ContinueAfterUnresolved(rest)
               /\ UNCHANGED << requiredClasses, requiredFiles, classToFileMap >>
          ELSE
          \E fileInfo \in { IndexGet(fileIndex, currentClass) } :
          IF /\ currentClass \in DOMAIN classToFileMap
             /\ classToFileMap[currentClass] # fileInfo.path
          THEN /\ queue' = rest
               /\ UNCHANGED << requiredClasses, requiredFiles, classToFileMap,
                               unresolved >>
          ELSE
          /\ requiredClasses' = SetAdd(requiredClasses, currentClass)
          /\ classToFileMap' =
                [n \in DOMAIN classToFileMap \cup { currentClass } |->
                    IF n = currentClass THEN fileInfo.path ELSE classToFileMap[n]]
          /\ unresolved' = unresolved
          /\ \E found \in { FindClassInfo(ParsedClasses(files[fileInfo.path]),
                                             currentClass) } :
             IF found = << >>
             THEN /\ queue' = rest
                  /\ requiredFiles' = requiredFiles
             ELSE
             \* each list is computed once and then named
             \E dependencies \in
                   { expandWildcardDependencies(found[1].dependencies,
                                                IndexKeys(fileIndex)) } :
             LET IsNew(dep) == /\ ~VisitedHas(visited', dep)
                               /\ dep \notin processing \cup { currentClass }
             IN
             \E newDependencies \in { SelectSeq(dependencies, IsNew) } :
             /\ requiredFiles' =
                   IF FileAlreadyIncluded(requiredFiles, fileInfo.path)
                   THEN requiredFiles
                   ELSE Append(requiredFiles,
                               RequiredFile(currentClass, fileInfo, dependencies))
             /\ queue' = EnqueueNew(rest, newDependencies)
    /\ UNCHANGED << files, entryClassName, pc, fileIndex, idxPos, coreFiles,
                    finalUniqueFiles, sortInput, keyPos, stack, sVisited, visiting,
                    sortedRegular, dropped, sortedFiles, bundle, clock, finalJs,
                    finalCss, buildId, manifest, written, runs, wvars, envvars, cvars, avars, svars, page >>

\* lines 1215-1229: deduplicate by class name and by file path
\* lines 1219-1226: one file of the loop
KeepUnlessSeen(kept, file) ==
    LET seen == \E i \in 1..Len(kept) :
                   \/ kept[i].className = file.className
                   \/ kept[i].filePath = file.filePath
    IN  IF seen THEN kept ELSE Append(kept, file)

RECURSIVE DeduplicateFiles(_)
DeduplicateFiles(reqFiles) ==
    IF reqFiles = << >> THEN << >>
    ELSE CHOOSE r \in { KeepUnlessSeen(kept, reqFiles[Len(reqFiles)]) :
                          kept \in { DeduplicateFiles(SubSeq(reqFiles, 1,
                                                              Len(reqFiles) - 1)) } } :
            TRUE

\* lines 1231-1255: the entry file itself when nothing was required
EntryFallback(dedup, reqClasses) ==
    IF Len(reqClasses) = 0 /\ Len(dedup) = 0 /\ IndexHas(fileIndex, entryClassName)
    THEN << RequiredFile(entryClassName, IndexGet(fileIndex, entryClassName), << >>) >>
    ELSE dedup

\* the end of buildDependencyGraphFromEntry (lines 1215-1269)
GraphFinish ==
    /\ pc = "graph"
    /\ queue = << >>
    /\ LET dedup == DeduplicateFiles(requiredFiles)
           out == EntryFallback(dedup, requiredClasses)
       IN  /\ requiredFiles' = out
           /\ requiredClasses' =
                 IF out # dedup THEN SetAdd(requiredClasses, entryClassName)
                 ELSE requiredClasses
    /\ pc' = "merge"
    /\ UNCHANGED << files, entryClassName, fileIndex, idxPos, coreFiles, queue,
                    visited, processing, classToFileMap, unresolved,
                    finalUniqueFiles, sortInput, keyPos, stack, sVisited, visiting,
                    sortedRegular, dropped, sortedFiles, bundle, clock, finalJs,
                    finalCss, buildId, manifest, written, runs, wvars, envvars, cvars, avars, svars, page, finalized >>

(***************************************************************************)
(* buildExtApp, steps 3 to 7 (lines 1882-1932).                             *)
(***************************************************************************)
\* the directory walkDir lists to come to a discovered file
DirOf(d) == IF d.isExtJS THEN "ext" ELSE "app"
Dirs == { DirOf(Discovery[i]) : i \in 1..Len(Discovery) }

\* findApplicationEntryPoint (lines 509-525) throws when no candidate exists
EntryPointFound(f) == f.kind # "missing"

\* the name getEntryClassName gives an Ext.application call without extend
InlineApplication == << "__INLINE_APPLICATION__" >>

\* getEntryClassName (lines 527-571) throws: the file cannot be read or
\* parsed, or holds neither Ext.application({...}) nor Ext.define
EntryClassNameThrows(f) == f.kind \in { "unreadable", "unparsable", "plain" }

\* getEntryClassName (lines 527-571) returns
getEntryClassName(f) ==
    IF f.kind = "application"
    THEN IF f.name # << >> THEN f.name ELSE InlineApplication
    ELSE f.name

\* what the entry file may hold
\* (name: the literal of its extend property or of its Ext.define;
\* dependencies: what extractDependenciesFromConfig gives for its own call)
EntryFile(kind, name) == [kind |-> kind, name |-> name, dependencies |-> << >>]

\* analyzeExtApplication (lines 160-193): the extend name and the dependency
\* list of an Ext.application call
ApplicationCall(extend, dependencies) ==
    [kind |-> "application", name |-> extend, dependencies |-> dependencies]
EntryFiles ==
    { EntryFile(k, << >>) :
        k \in { "missing", "unreadable", "unparsable", "plain", "application" } }
    \cup { EntryFile(k, n) : k \in { "application", "define" }, n \in EntryNames }

\* step 3: buildFileIndex indexes one more discovered file
IndexFile ==
    /\ pc = "index"
    /\ idxPos < Len(Discovery)
    /\ IF DirOf(Discovery[idxPos + 1]) \in unlistable
       \* line 426: fs.readdir throws, and nothing up to buildExtApp catches it
       THEN /\ pc' = "failed"
            /\ UNCHANGED << fileIndex, idxPos >>
       ELSE /\ fileIndex' = IndexOneFile(fileIndex, Discovery[idxPos + 1],
                                         files[Discovery[idxPos + 1].path])
            /\ idxPos' = idxPos + 1
            /\ pc' = pc
    /\ UNCHANGED << files, entryClassName, coreFiles, queue, visited,
                    processing, requiredClasses, requiredFiles, classToFileMap,
                    unresolved, finalUniqueFiles, sortInput, keyPos, stack,
                    sVisited, visiting, sortedRegular, dropped, sortedFiles,
                    bundle, clock, finalJs, finalCss, buildId, manifest, written,
                    runs, wvars, envvars, cvars, avars, svars, page, finalized >>

IndexNotAwaited == TRUE

\* line 1884: const fileIndex = await buildFileIndex(...): every discovered
\* file has been gone through
IndexAwaited == idxPos = Len(Discovery)

\* steps 4 and 5, and the first lines of step 6 (lines 1086-1091)
AddCoreFiles ==
    /\ pc = "index"
    /\ IndexAwaited
    /\ IF ~EntryPointFound(entryFile) \/ EntryClassNameThrows(entryFile)
       \* lines 1887-1888 throw into the catch of line 2036
       THEN /\ pc' = "failed"
            /\ UNCHANGED << entryClassName, coreFiles, queue >>
       ELSE /\ entryClassName' = getEntryClassName(entryFile)
            /\ \E extFs \in ExtScenarios, forceMinimalCore \in BOOLEAN :
                  coreFiles' = addExtJSCoreFiles(extFs, forceMinimalCore)
            /\ queue' = << entryClassName' >>
            /\ pc' = "graph"
    /\ UNCHANGED << files, fileIndex, idxPos, visited, processing,
                    requiredClasses, requiredFiles, classToFileMap, unresolved,
                    finalUniqueFiles, sortInput, keyPos, stack, sVisited, visiting,
                    sortedRegular, dropped, sortedFiles, bundle, clock, finalJs,
                    finalCss, buildId, manifest, written, runs, wvars, envvars, cvars, avars, svars, page, finalized >>

\* lines 1901-1904
HasCoreBundle(core) ==
    \E i \in 1..Len(core) :
        \/ core[i].className[1] = "__CORE_BUNDLE_"
        \/ core[i].filePath \in Range(BundlePaths)

FilterFrameworkFilesNever(core) == FALSE

\* line 1906
FilterFrameworkFiles(core) ==
    /\ HasCoreBundle(core)
    /\ ~ \E i \in 1..Len(core) : core[i].className = << "__CORE_MINIMAL_BOOTSTRAP" >>

\* lines 1906-1920
CombineFiles(core, deps) ==
    LET IsApp(f) == ~f.isExtJS
    IN  IF FilterFrameworkFiles(core) THEN core \o SelectSeq(deps, IsApp)
        ELSE core \o deps

\* lines 1912-1917
FilterRequiredClasses(core, deps, reqClasses) ==
    LET IsApp(f) == ~f.isExtJS
        appFilePaths == { f.filePath : f \in Range(SelectSeq(deps, IsApp)) }
        coreFilePaths == { f.filePath : f \in Range(core) }
        Keep(className) ==
            \/ ~IndexHas(fileIndex, className)
            \/ ~IndexGet(fileIndex, className).isExtJS
            \/ IndexGet(fileIndex, className).path \in appFilePaths
            \/ IndexGet(fileIndex, className).path \in coreFilePaths
    IN  IF FilterFrameworkFiles(core) THEN SelectSeq(reqClasses, Keep)
        ELSE reqClasses

\* lines 1922-1932: deduplicate the combined list by file path
RECURSIVE UniqueByPath(_)
UniqueByPath(fs) ==
    IF fs = << >> THEN << >>
    ELSE CHOOSE r \in { IF \E i \in 1..Len(kept) : kept[i].filePath = fs[Len(fs)].filePath
                          THEN kept ELSE Append(kept, fs[Len(fs)]) :
                          kept \in { UniqueByPath(SubSeq(fs, 1, Len(fs) - 1)) } } : TRUE

\* step 7, and the call of topologicalSortRequired (line 1935)
Merge ==
    /\ pc = "merge"
    /\ finalUniqueFiles' = UniqueByPath(CombineFiles(coreFiles, requiredFiles))
    /\ requiredClasses' = FilterRequiredClasses(coreFiles, requiredFiles,
                                                requiredClasses)
    /\ sortInput' = finalUniqueFiles'
    /\ pc' = "sort"
    /\ UNCHANGED << files, entryClassName, fileIndex, idxPos, coreFiles, queue,
                    visited, processing, requiredFiles, classToFileMap, unresolved,
                    keyPos, stack, sVisited, visiting, sortedRegular, dropped,
                    sortedFiles, bundle, clock, finalJs, finalCss, buildId,
                    manifest, written, runs, wvars, envvars, cvars, avars, svars, page, finalized >>

(***************************************************************************)
(* topologicalSortRequired (lines 1274-1339).                               *)
(***************************************************************************)
IsCoreFile(file) == file.isCore
IsRegularFile(file) == ~file.isCore

\* lines 1278-1279
CoreOf(input) == SelectSeq(input, IsCoreFile)
\* a sorter that does not set the core files apart
RegularOfAll(input) == input

RegularOf(input) == SelectSeq(input, IsRegularFile)

\* lines 1285-1288: graph.keys(), the regular class names in insertion order
GraphKeys(input) ==
    LET regular == RegularOf(input)
    IN  Unique([i \in 1..Len(regular) |-> regular[i].className])

\* classToFile.get: the last regular file set under the name (line 1286)
ClassToFile(input, className) ==
    LET regular == RegularOf(input)
        hit == { i \in 1..Len(regular) : regular[i].className = className }
    IN  regular[CHOOSE i \in hit : \A j \in hit : j <= i]

\* lines 1291-1297: graph.get(className), the dependencies that are nodes,
\* in insertion order
RECURSIVE EdgesFrom(_, _, _)
EdgesFrom(regular, keys, className) ==
    IF regular = << >> THEN << >>
    ELSE LET IsNode(dep) == dep \in keys
             own == IF Head(regular).className = className
                    THEN SelectSeq(Head(regular).dependencies, IsNode)
                    ELSE << >>
         IN  own \o EdgesFrom(Tail(regular), keys, className)

\* a sorter that records no edge
GraphEdgesNone(input, className) == << >>

\* a sorter that takes every declared dependency as an edge
GraphEdgesUnfiltered(input, className) ==
    LET regular == RegularOf(input)
    IN  Unique(EdgesFrom(regular, UNION { Range(regular[i].dependencies) :
                                          i \in 1..Len(regular) }, className))

GraphEdges(input, className) ==
    Unique(EdgesFrom(RegularOf(input), Range(GraphKeys(input)), className))

\* a visit without the check of line 1309
VisitReturnsOnCycleOnly(className) == className \in visiting

\* lines 1304-1311: visit returns at once
VisitReturnsEarly(className) ==
    className \in visiting \/ className \in sVisited


Frame(input, className) ==
    [className |-> className, dependencies |-> GraphEdges(input, className)]

\* lines 1329-1331: the loop over graph.keys() calls visit(className)
SortCall ==
    /\ pc = "sort"
    /\ stack = << >>
    /\ keyPos < Len(GraphKeys(sortInput))
    /\ LET className == GraphKeys(sortInput)[keyPos + 1]
       IN  IF VisitReturnsEarly(className)
           THEN UNCHANGED << stack, visiting >>
           ELSE /\ stack' = << Frame(sortInput, className) >>
                /\ visiting' = visiting \cup { className }
    /\ keyPos' = keyPos + 1
    /\ UNCHANGED << files, entryClassName, pc, fileIndex, idxPos, coreFiles, queue,
                    visited, processing, requiredClasses, requiredFiles,
                    classToFileMap, unresolved, finalUniqueFiles, sortInput,
                    sVisited, sortedRegular, dropped, sortedFiles, bundle, clock,
                    finalJs, finalCss, buildId, manifest, written, runs, wvars, envvars, cvars, avars, svars, page, finalized >>

\* lines 1316-1318: the running visit calls visit(dep) for its next dependency
VisitDependency ==
    /\ pc = "sort"
    /\ stack # << >>
    /\ stack[Len(stack)].dependencies # << >>
    /\ LET top == stack[Len(stack)]
           dep == Head(top.dependencies)
           popped == [stack EXCEPT ![Len(stack)].dependencies = Tail(top.dependencies)]
       IN  IF VisitReturnsEarly(dep)
           THEN /\ stack' = popped
                /\ dropped' = IF dep \in visiting
                              THEN dropped \cup { << top.className, dep >> }
                              ELSE dropped
                /\ visiting' = visiting
           ELSE /\ stack' = Append(popped, Frame(sortInput, dep))
                /\ visiting' = visiting \cup { dep }
                /\ dropped' = dropped
    /\ UNCHANGED << files, entryClassName, pc, fileIndex, idxPos, coreFiles, queue,
                    visited, processing, requiredClasses, requiredFiles,
                    classToFileMap, unresolved, finalUniqueFiles, sortInput, keyPos,
                    sVisited, sortedRegular, sortedFiles, bundle, clock, finalJs,
                    finalCss, buildId, manifest, written, runs, wvars, envvars, cvars, avars, svars, page, finalized >>

\* lines 1320-1325: the running visit has no dependency left and returns
VisitReturn ==
    /\ pc = "sort"
    /\ stack # << >>
    /\ stack[Len(stack)].dependencies = << >>
    /\ LET className == stack[Len(stack)].className
       IN  /\ visiting' = visiting \ { className }
           /\ sVisited' = sVisited \cup { className }
           /\ sortedRegular' =
                 IF className \in Range(GraphKeys(sortInput))
                 THEN Append(sortedRegular, ClassToFile(sortInput, className))
                 ELSE sortedRegular
    /\ stack' = SubSeq(stack, 1, Len(stack) - 1)
    /\ UNCHANGED << files, entryClassName, pc, fileIndex, idxPos, coreFiles, queue,
                    visited, processing, requiredClasses, requiredFiles,
                    classToFileMap, unresolved, finalUniqueFiles, sortInput, keyPos,
                    dropped, sortedFiles, bundle, clock, finalJs, finalCss, buildId,
                    manifest, written, runs, wvars, envvars, cvars, avars, svars, page, finalized >>

\* lines 1333-1338: core files by priority, then the sorted regular files
SortFinish ==
    /\ pc = "sort"
    /\ stack = << >>
    /\ keyPos = Len(GraphKeys(sortInput))
    /\ sortedFiles' = SortByPriority(CoreOf(sortInput)) \o sortedRegular
    /\ pc' = "concat"
    /\ UNCHANGED << files, entryClassName, fileIndex, idxPos, coreFiles, queue,
                    visited, processing, requiredClasses, requiredFiles,
                    classToFileMap, unresolved, finalUniqueFiles, sortInput, keyPos,
                    stack, sVisited, visiting, sortedRegular, dropped, bundle, clock,
                    finalJs, finalCss, buildId, manifest, written, runs, wvars, envvars, cvars, avars, svars, page, finalized >>

(***************************************************************************)
(* concatenateRequiredFiles (lines 1343-1733).  The bundle is a sequence of *)
(* segments; a segment's text is the sequence of numbers Bytes gives it.    *)
(***************************************************************************)
Segment(kind, className, text, stamp) ==
    [kind |-> kind, className |-> className, text |-> text, stamp |-> stamp]

\* lines 1420-1473: the segments one file contributes
FileSegments(file) ==
    IF file.isCore
    THEN << Segment("core", file.className, file.content, 0),
            Segment("wrapcall", << >>, "", 0) >>
    ELSE << Segment("class", file.className, file.content, 0) >>

RECURSIVE AllFileSegments(_)
AllFileSegments(fs) ==
    IF fs = << >> THEN << >>
    ELSE FileSegments(Head(fs)) \o AllFileSegments(Tail(fs))

concatenateRequiredFiles(sorted, now) ==
    << Segment("banner", << >>, "", now), Segment("prelude", << >>, "", 0) >>
    \o AllFileSegments(sorted)
    \o << Segment("verify", << >>, "", 0) >>

\* lines 1957-1968: the bundle written when there is no file at all
MinimalBundle(now) == << Segment("minimal", entryClassName, "", now) >>

\* minifyJs (lines 1582-1640, the later of the two declarations): Terser
\* drops the comments, so the banner goes
minifyJs(code) ==
    LET NotComment(seg) == seg.kind # "banner"
    IN  SelectSeq(code, NotComment)

KindCode(kind) ==
    CASE kind = "banner" -> 1 [] kind = "prelude" -> 2 [] kind = "core" -> 3
      [] kind = "wrapcall" -> 4 [] kind = "class" -> 5 [] kind = "verify" -> 6
      [] OTHER -> 7

TextCode(text) ==
    CASE text = "" -> 0 [] text = "ext/X.js" -> 1 [] text = "app/a1.js" -> 2
      [] text = "app/a2.js" -> 3 [] text = "__minimal_bootstrap__" -> 4
      [] OTHER -> 5

RECURSIVE Bytes(_)
Bytes(code) ==
    IF code = << >> THEN << >>
    ELSE << KindCode(Head(code).kind), TextCode(Head(code).text), Head(code).stamp >>
         \o Bytes(Tail(code))

(***************************************************************************)
(* generateHash (lines 263-265): the first 8 hexadecimal digits of a digest *)
(* of the content.  The digest here is a polynomial checksum, not MD5: what *)
(* is kept is that it is a function of the content and has 8 digits.        *)
(***************************************************************************)
HashLen == 8

\* the k-th hexadecimal digit of the digest
RECURSIVE Digit(_, _, _)
Digit(k, h, content) ==
    IF content = << >> THEN h
    ELSE Digit(k, (h * (k + 2) + Head(content) + 1) % 16, Tail(content))

generateHash(content) == [k \in 1..HashLen |-> Digit(k, k, content)]

\* generateBuildManifest (lines 1735-1754)
generateBuildManifest(jsContent, cssContent, id, now) ==
    [id |-> id, created |-> now,
     js |-> << [path |-> << id, "app.js" >>, version |-> generateHash(jsContent),
                size |-> Len(jsContent)] >>,
     css |-> << [path |-> << id, "app.css" >>, version |-> generateHash(cssContent),
                 size |-> Len(cssContent)] >>]

\* the compiled style sheets a build may get from compileSass / minifyCss
CssTexts == { << >>, << 9 >> }

(***************************************************************************)
(* buildExtApp, steps 9 to 16 (lines 1937-2010).                            *)
(***************************************************************************)
\* step 9 (lines 1937-1969)
ProcessJs ==
    /\ pc = "concat"
    /\ \E minify \in BOOLEAN :
          IF Len(sortedFiles) > 0
          THEN /\ bundle' = concatenateRequiredFiles(sortedFiles, clock)
               /\ finalJs' = Bytes(IF minify THEN minifyJs(bundle') ELSE bundle')
          ELSE /\ bundle' = MinimalBundle(clock)
               /\ finalJs' = Bytes(bundle')
    /\ pc' = "css"
    /\ UNCHANGED << files, entryClassName, fileIndex, idxPos, coreFiles, queue,
                    visited, processing, requiredClasses, requiredFiles,
                    classToFileMap, unresolved, finalUniqueFiles, sortInput, keyPos,
                    stack, sVisited, visiting, sortedRegular, dropped, sortedFiles,
                    clock, finalCss, buildId, manifest, written, runs, wvars, envvars, cvars, avars, svars, page, finalized >>

\* step 10 (lines 1971-1975)
ProcessCss ==
    /\ pc = "css"
    /\ finalCss' \in CssTexts
    /\ pc' = "write"
    /\ UNCHANGED << files, entryClassName, fileIndex, idxPos, coreFiles, queue,
                    visited, processing, requiredClasses, requiredFiles,
                    classToFileMap, unresolved, finalUniqueFiles, sortInput, keyPos,
                    stack, sVisited, visiting, sortedRegular, dropped, sortedFiles,
                    bundle, clock, finalJs, buildId, manifest, written, runs, wvars, envvars, cvars, avars, svars, page, finalized >>

\* an id that takes the time of the build in
BuildIdWithTime(js, css, now) == generateHash(js \o css \o << now >>)

\* line 1978
BuildIdOf(js, css, now) == generateHash(js \o css)

\* the output artifacts in the order buildExtApp writes them (lines 1984,
\* 1988, 2000, 2006 and 1858); app.css is written only when there is CSS
Artifacts == << "app.js", "app.css", "manifest", "bootstrap.js", "index.html" >>

ArtifactPath(artifact, id) ==
    CASE artifact = "app.js" -> << "build", id, "app.js" >>
      [] artifact = "app.css" -> << "build", id, "app.css" >>
      [] artifact = "manifest" -> << "build", id, ".json" >>
      [] artifact = "bootstrap.js" -> << "build", "bootstrap.js" >>
      [] OTHER -> << "build", "index.html" >>

\* the writes one build attempts when none fails
WritesOf(css) ==
    LET Attempted(a) == a # "app.css" \/ css # << >>
    IN  SelectSeq(Artifacts, Attempted)

\* updateIndexHtml (lines 1820-1863) catches what its write throws
ErrorIsCaught(artifact) == artifact = "index.html"

\* the place in writes of the first write whose error leaves buildExtApp
\* (0: none does)
FirstFatalWrite(writes, bad) ==
    LET fatal == { k \in 1..Len(writes) :
                     writes[k] \in bad /\ ~ErrorIsCaught(writes[k]) }
    IN  IF fatal = {} THEN 0 ELSE CHOOSE k \in fatal : \A m \in fatal : k <= m

\* steps 11 to 16 (lines 1977-2010)
WriteOutputs ==
    /\ pc = "write"
    /\ buildId' = BuildIdOf(finalJs, finalCss, clock)
    /\ LET writes == WritesOf(finalCss)
           stop == FirstFatalWrite(writes, unwritable)
           done == IF stop = 0 THEN writes ELSE SubSeq(writes, 1, stop - 1)
       IN  /\ written' = { ArtifactPath(a, buildId') :
                              a \in Range(done) \ unwritable }
           \* step 14 is reached when app.js and app.css were written
           /\ manifest' = IF stop = 0 \/ "manifest" \in Range(SubSeq(writes, 1, stop))
                          THEN generateBuildManifest(finalJs, finalCss, buildId', clock)
                          ELSE manifest
           /\ pc' = IF stop = 0 THEN "done" ELSE "failed"
    /\ runs' = Append(runs, [js |-> finalJs, css |-> finalCss, id |-> buildId',
                             created |-> clock])
    /\ UNCHANGED << files, entryClassName, fileIndex, idxPos, coreFiles, queue,
                    visited, processing, requiredClasses, requiredFiles,
                    classToFileMap, unresolved, finalUniqueFiles, sortInput, keyPos,
                    stack, sVisited, visiting, sortedRegular, dropped, sortedFiles,
                    bundle, clock, finalJs, finalCss, wvars, envvars, cvars, avars, svars, page, finalized >>

\* main (lines 2207-2214): process.exit(1) when buildExtApp rejects
ExitCode == IF pc = "failed" THEN 1 ELSE 0

(***************************************************************************)
(* expandWildcardDependencies run alone, on names over a small alphabet.    *)
(***************************************************************************)
NamesOver(chars) == UNION { [1..k -> chars] : k \in 1..MaxNameLen }
\* index keys and dependency names
WKeyNames == NamesOver({ "A", "." })
WDepNames == NamesOver({ "A", ".", "*" })
WKeyLists == { k \in SeqsUpTo(WKeyNames, MaxKeys) : NoDup(k) }
WDepLists == SeqsUpTo(WDepNames, MaxDeps)

ExpandWildcards ==
    /\ pc = "wild"
    /\ wExpanded' = expandWildcardDependencies(wDependencies, wKeys)
    /\ pc' = "wilddone"
    /\ UNCHANGED << files, entryClassName, fileIndex, idxPos, coreFiles, queue,
                    visited, processing, requiredClasses, requiredFiles,
                    classToFileMap, unresolved, finalUniqueFiles, sortInput, keyPos,
                    stack, sVisited, visiting, sortedRegular, dropped, sortedFiles,
                    bundle, clock, finalJs, finalCss, buildId, manifest, written,
                    runs, wDependencies, wKeys, envvars, cvars, avars, svars, page,
                    finalized >>

(***************************************************************************)
(* A later build of the same kind: the script is run again, at a later      *)
(* time, and reaches step 11 with some final JS and CSS.                    *)
(***************************************************************************)
JsTexts == SeqsUpTo(0..1, MaxTextLen)

NextBuild ==
    /\ pc = "done"
    /\ Len(runs) < MaxRuns
    /\ clock' = clock + 1
    /\ finalJs' \in JsTexts
    /\ finalCss' \in CssTexts
    /\ pc' = "write"
    /\ UNCHANGED << files, entryClassName, fileIndex, idxPos, coreFiles, queue,
                    visited, processing, requiredClasses, requiredFiles,
                    classToFileMap, unresolved, finalUniqueFiles, sortInput, keyPos,
                    stack, sVisited, visiting, sortedRegular, dropped, sortedFiles,
                    bundle, buildId, manifest, written, runs, wvars, envvars, cvars, avars, svars, page, finalized >>

(***************************************************************************)
(* Initial states.                                                          *)
(***************************************************************************)
\* everything a build has not produced yet
\* no bundle runs
NoPage == << >>

\* the calls of buildExtApp in one process, and what a cache holds
Calls == 1..MaxBuilds

NoEntry == [content |-> 0, writer |-> 0]

NotCalled == [pc |-> "notcalled", content |-> 0, taken |-> 0, takenFrom |-> 0]

\* the process has called buildExtApp not once
NoCalls ==
    /\ diskText = 1
    /\ fileContentCache = NoEntry
    /\ globalClassToFileMap = NoEntry
    /\ builds = [b \in Calls |-> NotCalled]

Blank ==
    /\ fileIndex = << >> /\ idxPos = 0 /\ coreFiles = << >>
    /\ queue = << >> /\ visited = {} /\ processing = {}
    /\ requiredClasses = << >> /\ requiredFiles = << >>
    /\ classToFileMap = << >> /\ unresolved = {}
    /\ finalUniqueFiles = << >>
    /\ keyPos = 0 /\ stack = << >> /\ sVisited = {} /\ visiting = {}
    /\ sortedRegular = << >> /\ dropped = {} /\ sortedFiles = << >>
    /\ bundle = << >> /\ clock = 1
    /\ buildId = << >> /\ manifest = << >> /\ written = {} /\ runs = << >>
    /\ wExpanded = << >>
    /\ finalized = << >>
    /\ extracted = << >>

\* every directory can be listed and every output written
HealthyDisk == unlistable = {} /\ unwritable = {}

NoFiles == [p \in Paths |-> NoDefine("plain")]

\* buildExtApp is called on some file system
Init ==
    /\ files \in FileSystems
    /\ entryFile \in { EntryFile("application", n) : n \in EntryNames }
    /\ HealthyDisk
    /\ entryClassName = << >>
    /\ pc = "index"
    /\ sortInput = << >> /\ finalJs = << >> /\ finalCss = << >>
    /\ wDependencies = << >> /\ wKeys = << >>
    /\ configObject = << >>
    /\ aExtFs = NoExt /\ aForceMinimalCore = FALSE
    /\ NoCalls
    /\ page = NoPage
    /\ Blank

Next ==
    \/ IndexFile \/ AddCoreFiles \/ GraphStep \/ GraphFinish \/ Merge
    \/ SortCall \/ VisitDependency \/ VisitReturn \/ SortFinish
    \/ ProcessJs \/ ProcessCss \/ WriteOutputs

Spec == Init /\ [][Next]_vars

\* ---- topologicalSortRequired and concatenateRequiredFiles on any list ----
\* the files the sorter may be given: regular files whose dependency lists
\* hold no wildcard and no duplicate, and core files
SortPath(className) ==
    CASE className = nA -> "app/a1.js" [] className = nB -> "app/a2.js"
      [] OTHER -> "ext/X.js"

SortRegularFiles ==
    { [className |-> n, filePath |-> SortPath(n), isExtJS |-> (n = nX),
       isCore |-> FALSE, priority |-> 0, dependencies |-> d,
       content |-> SortPath(n)] :
        n \in ClassNames,
        d \in { l \in SeqsUpTo(ClassNames, MaxDeps) : NoDup(l) } }

SortCoreFiles ==
    { CoreFile(<< "__CORE_", "Ext_js" >>, "/ext/packages/core/src/Ext.js", 1),
      CoreFile(<< "__CORE_", "Class_js" >>, "/ext/packages/core/src/class/Class.js", 2) }

SortInputs ==
    { l \in SeqsUpTo(SortRegularFiles \cup SortCoreFiles, MaxSortFiles) :
        \A i, j \in 1..Len(l) : i # j => l[i].className # l[j].className }

InitSort ==
    /\ files = NoFiles
    /\ entryFile = EntryFile("application", nA)
    /\ HealthyDisk
    /\ entryClassName = nA
    /\ pc = "sort"
    /\ sortInput \in SortInputs
    /\ finalJs = << >> /\ finalCss = << >>
    /\ wDependencies = << >> /\ wKeys = << >>
    /\ configObject = << >>
    /\ aExtFs = NoExt /\ aForceMinimalCore = FALSE
    /\ NoCalls
    /\ page = NoPage
    /\ Blank

NextSort ==
    \/ SortCall \/ VisitDependency \/ VisitReturn \/ SortFinish \/ ProcessJs

SpecSort == InitSort /\ [][NextSort]_vars

\* ---- expandWildcardDependencies on any dependency list and index ----
InitWild ==
    /\ files = NoFiles
    /\ entryFile = EntryFile("application", nA)
    /\ HealthyDisk
    /\ entryClassName = nA
    /\ pc = "wild"
    /\ wDependencies \in WDepLists
    /\ wKeys \in WKeyLists
    /\ sortInput = << >> /\ finalJs = << >> /\ finalCss = << >>
    /\ configObject = << >>
    /\ aExtFs = NoExt /\ aForceMinimalCore = FALSE
    /\ NoCalls
    /\ page = NoPage
    /\ Blank

NextWild == ExpandWildcards

SpecWild == InitWild /\ [][NextWild]_vars

\* ---- steps 11 to 16 of buildExtApp, over several builds ----
InitId ==
    /\ files = NoFiles
    /\ entryFile = EntryFile("application", nA)
    /\ unlistable = {}
    /\ unwritable \in { {} } \cup { { Artifacts[k] } : k \in 1..Len(Artifacts) }
    /\ entryClassName = nA
    /\ pc = "write"
    /\ finalJs \in JsTexts
    /\ finalCss \in CssTexts
    /\ sortInput = << >>
    /\ wDependencies = << >> /\ wKeys = << >>
    /\ configObject = << >>
    /\ aExtFs = NoExt /\ aForceMinimalCore = FALSE
    /\ NoCalls
    /\ page = NoPage
    /\ Blank

NextId == WriteOutputs \/ NextBuild

SpecId == InitId /\ [][NextId]_vars

(***************************************************************************)
(* extractDependenciesFromConfig (lines 195-255) and its helpers            *)
(* (lines 80-120), on any config object.  A property value is a string      *)
(* literal or an array of string literals; a string is a sequence of        *)
(* characters and name segments.                                            *)
(***************************************************************************)
StringLiteral(value) == [isArray |-> FALSE, strings |-> << value >>]
ArrayExpression(elements) == [isArray |-> TRUE, strings |-> elements]
\* what findObjectProperty returns when no property has the name (null)
NoNode == [isArray |-> FALSE, strings |-> << >>]

\* lines 80-88; null is rendered as the empty string: every caller tests the
\* result for truthiness only (lines 97, 201, 208, 215)
extractStringLiteral(node) ==
    IF ~node.isArray /\ node.strings # << >> THEN node.strings[1] ELSE << >>

IsTruthy(str) == str # << >>

\* lines 90-103
extractArrayOfStrings(node) ==
    IF ~node.isArray THEN << >> ELSE SelectSeq(node.strings, IsTruthy)

\* lines 105-125: the value of the first property of that name
findObjectProperty(objectExpression, propertyName) ==
    LET at == { i \in 1..Len(objectExpression) :
                  objectExpression[i].key = propertyName }
    IN  IF at = {} THEN NoNode
        ELSE objectExpression[CHOOSE i \in at : \A j \in at : i <= j].value

\* String.prototype.trim leaves nothing
IsBlank(str) == \A i \in 1..Len(str) : str[i] = " "

\* line 254: dep && dep.trim()
KeepsDep(dep) == dep # << >> /\ ~IsBlank(dep)

\* lines 198-203, 206-210, 213-217: one single-valued property
SingleValue(configObj, propertyName) ==
    LET value == extractStringLiteral(findObjectProperty(configObj, propertyName))
    IN  IF IsTruthy(value) THEN << value >> ELSE << >>

\* lines 220-251: one list-valued property
ListValue(configObj, propertyName) ==
    extractArrayOfStrings(findObjectProperty(configObj, propertyName))

extractDependenciesFromConfig(configObj) ==
    SelectSeq(SingleValue(configObj, "extend")
              \o SingleValue(configObj, "overrides")
              \o SingleValue(configObj, "mainView")
              \o ListValue(configObj, "requires")
              \o ListValue(configObj, "uses")
              \o ListValue(configObj, "stores")
              \o ListValue(configObj, "models")
              \o ListValue(configObj, "controllers"),
              KeepsDep)

\* the call of lines 144 and 176
ExtractDependencies ==
    /\ pc = "extract"
    /\ extracted' = extractDependenciesFromConfig(configObject)
    /\ pc' = "extracted"
    /\ UNCHANGED << files, entryClassName, fileIndex, idxPos, coreFiles, queue,
                    visited, processing, requiredClasses, requiredFiles,
                    classToFileMap, unresolved, finalUniqueFiles, sortInput, keyPos,
                    stack, sVisited, visiting, sortedRegular, dropped, sortedFiles,
                    bundle, clock, finalJs, finalCss, buildId, manifest, written,
                    runs, wvars, envvars, avars, svars, page, finalized, configObject >>

\* the property names a config object may hold ("name" is read by no one)
ConfigKeys ==
    { "extend", "overrides", "mainView", "requires", "uses", "stores", "models",
      "controllers", "views", "profiles", "name" }

\* the strings a config object may hold: a bare name, a name with a leading
\* dot, a qualified name, a string of blanks and the empty string
ConfigStrings == { << "F" >>, << ".", "F" >>, nA, << " " >>, << >> }

ConfigNodes ==
    { StringLiteral(str) : str \in ConfigStrings }
    \cup { ArrayExpression(l) : l \in SeqsUpTo(ConfigStrings, MaxConfigEntries) }

ConfigProperties == { [key |-> k, value |-> v] : k \in ConfigKeys, v \in ConfigNodes }

RECURSIVE StringsIn(_)
StringsIn(configObj) ==
    IF configObj = << >> THEN 0
    ELSE Len(Head(configObj).value.strings) + StringsIn(Tail(configObj))

ConfigObjects ==
    { o \in SeqsUpTo(ConfigProperties, MaxConfigEntries) :
        StringsIn(o) <= MaxConfigEntries }

InitConfig ==
    /\ files = NoFiles
    /\ entryFile = EntryFile("application", nA)
    /\ HealthyDisk
    /\ entryClassName = nA
    /\ pc = "extract"
    /\ sortInput = << >> /\ finalJs = << >> /\ finalCss = << >>
    /\ wDependencies = << >> /\ wKeys = << >>
    /\ configObject \in ConfigObjects
    /\ aExtFs = NoExt /\ aForceMinimalCore = FALSE
    /\ NoCalls
    /\ page = NoPage
    /\ Blank

NextConfig == ExtractDependencies

SpecConfig == InitConfig /\ [][NextConfig]_vars

(***************************************************************************)
(* addExtJSCoreFiles on any framework root and either setting of           *)
(* forceMinimalCore.                                                        *)
(***************************************************************************)
\* the call of line 1892
CallAddCoreFiles ==
    /\ pc = "core"
    /\ coreFiles' = addExtJSCoreFiles(aExtFs, aForceMinimalCore)
    /\ pc' = "cored"
    /\ UNCHANGED << files, entryClassName, fileIndex, idxPos, queue,
                    visited, processing, requiredClasses, requiredFiles,
                    classToFileMap, unresolved, finalUniqueFiles, sortInput, keyPos,
                    stack, sVisited, visiting, sortedRegular, dropped, sortedFiles,
                    bundle, clock, finalJs, finalCss, buildId, manifest, written,
                    runs, wvars, envvars, cvars, avars, svars, page, finalized >>

FileStates == { "absent", "unreadable", "ok" }

ExtRoots ==
    { [bundles |-> b, core |-> c] :
        b \in [1..Len(BundlePaths) -> FileStates],
        c \in [1..MaxCoreFiles -> FileStates] }

InitCore ==
    /\ files = NoFiles
    /\ entryFile = EntryFile("application", nA)
    /\ HealthyDisk
    /\ entryClassName = nA
    /\ pc = "core"
    /\ sortInput = << >> /\ finalJs = << >> /\ finalCss = << >>
    /\ wDependencies = << >> /\ wKeys = << >>
    /\ configObject = << >>
    /\ aExtFs \in ExtRoots
    /\ aForceMinimalCore \in BOOLEAN
    /\ NoCalls
    /\ page = NoPage
    /\ Blank

NextCore == CallAddCoreFiles

SpecCore == InitCore /\ [][NextCore]_vars

(***************************************************************************)
(* The module-level fileContentCache and classToFileMap (lines 29-33) over  *)
(* several calls of buildExtApp in one process (module.exports, line 2217). *)
(* A call runs until an await and goes on later; the calls share one source *)
(* file, whose text may be edited between two reads.  An entry of a cache   *)
(* is kept with the call that wrote it; 0 is no entry and no call.          *)
(***************************************************************************)
\* what one call of buildExtApp holds, as followed by the other specifications
OneBuild == << files, entryClassName, pc, fileIndex, idxPos, coreFiles, queue,
              visited, processing, requiredClasses, requiredFiles,
              classToFileMap, unresolved, finalUniqueFiles, sortInput, keyPos,
              stack, sVisited, visiting, sortedRegular, dropped, sortedFiles,
              bundle, clock, finalJs, finalCss, buildId, manifest, written,
              runs, wvars, envvars, cvars, avars, finalized >>

\* buildExtApp(options) is called
BuildCall ==
    /\ \E b \in Calls :
          /\ builds[b].pc = "notcalled"
          /\ builds' = [builds EXCEPT ![b].pc = "index"]
    /\ UNCHANGED << diskText, fileContentCache, globalClassToFileMap >>
    /\ UNCHANGED << OneBuild, page >>

\* parseJsFile (lines 573-607) read the file while indexing: lines 575-576, 595
BuildIndexParse ==
    /\ \E b \in Calls :
          /\ builds[b].pc = "index"
          /\ fileContentCache' = [content |-> diskText, writer |-> b]
          /\ globalClassToFileMap' = [content |-> 1, writer |-> b]
          /\ builds' = [builds EXCEPT ![b].pc = "graph"]
    /\ UNCHANGED diskText
    /\ UNCHANGED << OneBuild, page >>

\* buildDependencyGraphFromEntry reads the file: lines 1154-1155
BuildGraphRead ==
    /\ \E b \in Calls :
          /\ builds[b].pc = "graph"
          /\ fileContentCache' = [content |-> diskText, writer |-> b]
          /\ builds' = [builds EXCEPT ![b].pc = "parse", ![b].content = diskText]
    /\ UNCHANGED << diskText, globalClassToFileMap >>
    /\ UNCHANGED << OneBuild, page >>

\* and parses it: line 1157, with lines 575-576 and 595
BuildGraphParse ==
    /\ \E b \in Calls :
          /\ builds[b].pc = "parse"
          /\ fileContentCache' = [content |-> diskText, writer |-> b]
          /\ globalClassToFileMap' = [content |-> 1, writer |-> b]
          /\ builds' = [builds EXCEPT ![b].pc = "concat"]
    /\ UNCHANGED diskText
    /\ UNCHANGED << OneBuild, page >>

\* concatenateRequiredFiles takes the text of the file (line 1421):
\* fileContentCache.get(file.filePath) || file.content
BuildConcatenate ==
    /\ \E b \in Calls :
          /\ builds[b].pc = "concat"
          /\ builds' =
                IF fileContentCache.content # 0
                THEN [builds EXCEPT ![b].pc = "returned",
                                    ![b].taken = fileContentCache.content,
                                    ![b].takenFrom = fileContentCache.writer]
                ELSE [builds EXCEPT ![b].pc = "returned",
                                    ![b].taken = builds[b].content,
                                    ![b].takenFrom = b]
    /\ UNCHANGED << diskText, fileContentCache, globalClassToFileMap >>
    /\ UNCHANGED << OneBuild, page >>

\* the source file is edited on disk
EditFile ==
    /\ diskText < MaxVersions
    /\ diskText' = diskText + 1
    /\ UNCHANGED << fileContentCache, globalClassToFileMap, builds >>
    /\ UNCHANGED << OneBuild, page >>

InitShared ==
    /\ files = NoFiles
    /\ entryFile = EntryFile("application", nA)
    /\ HealthyDisk
    /\ entryClassName = nA
    /\ pc = "calls"
    /\ sortInput = << >> /\ finalJs = << >> /\ finalCss = << >>
    /\ wDependencies = << >> /\ wKeys = << >>
    /\ configObject = << >>
    /\ aExtFs = NoExt /\ aForceMinimalCore = FALSE
    /\ NoCalls
    /\ page = NoPage
    /\ Blank

NextShared ==
    \/ BuildCall \/ BuildIndexParse \/ BuildGraphRead \/ BuildGraphParse
    \/ BuildConcatenate \/ EditFile

SpecShared == InitShared /\ [][NextShared]_vars

(***************************************************************************)
(* The duplicate-registration guard that concatenateRequiredFiles writes    *)
(* into the bundle (lines 1364-1367 and 1384-1416), as it runs in a page.   *)
(* The page says whether the core gave an Ext.ClassManager (the fallback    *)
(* Ext.define of the minimal bootstrap, lines 788-828, comes without one)   *)
(* and whether new Error().stack has a third line (line 1400).              *)
(***************************************************************************)
\* the class names registered in a page
PageNames == { nA, nB }

NoCall == [className |-> << >>, duplicate |-> FALSE, warned |-> FALSE,
           callback |-> FALSE, callbackThis |-> "none", result |-> "none"]

\* lines 1364-1367: the prelude has run, the core has not
PageOf(classManager, deepStack) ==
    [classManager |-> classManager, deepStack |-> deepStack,
     define |-> "absent", isWrappedByCustomBuild |-> FALSE,
     customBuildDefineWrapped |-> FALSE, wraps |-> 0, attempts |-> 0,
     customBuildDefinedClasses |-> {}, originalCalls |-> [n \in PageNames |-> 0],
     defines |-> 0, last |-> NoCall]

\* the core file of the bundle runs and sets Ext.define (lines 1423-1439)
LoadCore ==
    /\ pc = "page"
    /\ page.define = "absent"
    /\ page' = [page EXCEPT !.define = "original"]
    /\ UNCHANGED << OneBuild, svars >>

\* internalAttemptWrapExtDefine (lines 1384-1416)
internalAttemptWrapExtDefine(p) ==
    IF p.customBuildDefineWrapped THEN p
    ELSE IF p.define = "absent" THEN p
    ELSE IF p.isWrappedByCustomBuild
         THEN [p EXCEPT !.customBuildDefineWrapped = TRUE]
    ELSE [p EXCEPT !.define = "wrapper", !.isWrappedByCustomBuild = TRUE,
                   !.customBuildDefineWrapped = TRUE, !.wraps = @ + 1]

\* the call written after a core file (lines 1441 and 1459)
AttemptWrap ==
    /\ pc = "page"
    /\ page.attempts < MaxAttempts
    /\ page' = [internalAttemptWrapExtDefine(page) EXCEPT !.attempts = @ + 1]
    /\ UNCHANGED << OneBuild, svars >>

\* line 1400: stack.split("\n")[2], undefined when the stack is short
LocationOf(p) == IF p.deepStack THEN "location" ELSE "undefined"

\* line 1390: __customBuildDefinedClasses[className] is truthy
AlreadyDefined(p, className) == className \in p.customBuildDefinedClasses

\* the wrapper of lines 1389-1405, called as Ext.define(className, config, callback)
WrappedDefine(p, className, callback) ==
    IF AlreadyDefined(p, className)
    THEN [p EXCEPT !.last =
            [className |-> className, duplicate |-> TRUE, warned |-> TRUE,
             callback |-> callback,
             \* line 1393: callback.call(this), and this is Ext
             callbackThis |-> IF callback THEN "Ext" ELSE "none",
             \* line 1394: Ext.ClassManager.get(className)
             result |-> IF p.classManager THEN "existing" ELSE "TypeError"]]
    ELSE [p EXCEPT
            !.customBuildDefinedClasses =
                IF LocationOf(p) = "undefined" THEN @ ELSE @ \cup { className },
            !.originalCalls[className] = @ + 1,
            !.last =
              [className |-> className,
               duplicate |-> p.originalCalls[className] > 0, warned |-> FALSE,
               callback |-> callback,
               callbackThis |-> IF callback THEN "class" ELSE "none",
               result |-> "created"]]

\* a class file of the bundle, or the page, calls Ext.define
DefineCall ==
    /\ pc = "page"
    /\ page.define = "wrapper"
    /\ page.defines < MaxDefines
    /\ \E className \in PageNames, callback \in BOOLEAN :
          page' = [WrappedDefine(page, className, callback) EXCEPT !.defines = @ + 1]
    /\ UNCHANGED << OneBuild, svars >>

InitGuard ==
    /\ files = NoFiles
    /\ entryFile = EntryFile("application", nA)
    /\ HealthyDisk
    /\ entryClassName = nA
    /\ pc = "page"
    /\ sortInput = << >> /\ finalJs = << >> /\ finalCss = << >>
    /\ wDependencies = << >> /\ wKeys = << >>
    /\ configObject = << >>
    /\ aExtFs = NoExt /\ aForceMinimalCore = FALSE
    /\ NoCalls
    /\ page \in { PageOf(cm, ds) : cm \in BOOLEAN, ds \in BOOLEAN }
    /\ Blank

NextGuard == LoadCore \/ AttemptWrap \/ DefineCall

SpecGuard == InitGuard /\ [][NextGuard]_vars

(***************************************************************************)
(* Vocabulary of the properties: what the claims speak of, stated on the    *)
(* inputs and outputs and not through the operators above.                  *)
(***************************************************************************)
\* the place of the file registered under className in a list (0: absent)
PlaceOf(list, className) ==
    IF \E i \in 1..Len(list) : list[i].className = className
    THEN CHOOSE i \in 1..Len(list) : list[i].className = className
    ELSE 0

CountOf(list, className) ==
    Cardinality({ i \in 1..Len(list) : list[i].className = className })

\* the sorter has returned
Sorted == pc \in { "concat", "css", "write", "done" }

\* the non-core files given to the sorter, and their class names
GivenRegular == { f \in Range(sortInput) : ~f.isCore }
GivenNames == { f.className : f \in GivenRegular }

\* a depends on b, both present among the non-core files given
DependsOn(a, b) ==
    \E f \in GivenRegular : f.className = a /\ b \in Range(f.dependencies) /\ b \in GivenNames

\* the names reached from the names of S by at most k dependency edges
RECURSIVE ReachedFrom(_, _)
ReachedFrom(S, k) ==
    IF k = 0 THEN S
    ELSE LET R == ReachedFrom(S, k - 1)
         IN  R \cup { b \in GivenNames : \E a \in R : DependsOn(a, b) }

Acyclic ==
    \A a \in GivenNames :
        a \notin ReachedFrom({ b \in GivenNames : DependsOn(a, b) },
                             Cardinality(GivenNames))

\* C1: when the dependency relation among the files given to the sorter is
\* acyclic, the returned order holds every given file once and every file
\* strictly after each file it depends on.
C1_AcyclicOrderRespectsDependencies ==
    (Sorted /\ Acyclic) =>
        /\ \A f \in Range(sortInput) : CountOf(sortedFiles, f.className) = 1
        /\ \A a, b \in GivenNames :
              DependsOn(a, b) => PlaceOf(sortedFiles, b) < PlaceOf(sortedFiles, a)

\* an acyclic input whose first file depends on a later one has been sorted
C1_Witness ==
    /\ Sorted /\ Acyclic
    /\ \E i, j \in 1..Len(sortInput) :
          /\ i < j /\ ~sortInput[i].isCore /\ ~sortInput[j].isCore
          /\ DependsOn(sortInput[i].className, sortInput[j].className)
          /\ PlaceOf(sortedFiles, sortInput[j].className)
                < PlaceOf(sortedFiles, sortInput[i].className)

\* C2: in the sorted list, and in the assembled bundle, every core file comes
\* before every non-core file.
C2_CoreBeforeNonCore ==
    /\ Sorted =>
          \A i, j \in 1..Len(sortedFiles) :
              (sortedFiles[i].isCore /\ ~sortedFiles[j].isCore) => i < j
    /\ \A i, j \in 1..Len(bundle) :
          (bundle[i].kind = "core" /\ bundle[j].kind = "class") => i < j

\* a core file given after a non-core file that declares dependencies, and the
\* bundle assembled with both
C2_Witness ==
    /\ \E i, j \in 1..Len(sortInput) :
          /\ i < j /\ ~sortInput[i].isCore /\ sortInput[j].isCore
          /\ sortInput[i].dependencies # << >>
    /\ \E i, j \in 1..Len(bundle) : bundle[i].kind = "core" /\ bundle[j].kind = "class"

(***************************************************************************)
(* Properties of one whole build.                                           *)
(***************************************************************************)
\* the registration call the index binds className to (<< >>: none)
BoundContent(className) ==
    IF IndexHas(fileIndex, className)
    THEN files[IndexGet(fileIndex, className).path]
    ELSE NoDefine("plain")

\* the paths of the discovered files that register className, in discovery order
DeclaringPlaces(className) ==
    { i \in 1..Len(Discovery) :
        /\ files[Discovery[i].path].kind = "define"
        /\ files[Discovery[i].path].className = className }

\* C3: the final file list holds no class name twice and no file path twice.
C3_FinalListHasNoDuplicate ==
    Sorted =>
        \A i, j \in 1..Len(sortedFiles) :
            i # j => /\ sortedFiles[i].className # sortedFiles[j].className
                     /\ sortedFiles[i].filePath # sortedFiles[j].filePath

\* a class that two other required files depend on is in the final list
C3_Witness ==
    /\ pc = "done"
    /\ \E i, j, k \in 1..Len(sortedFiles) :
          /\ i # j /\ i # k /\ j # k
          /\ sortedFiles[k].className \in Range(sortedFiles[i].dependencies)
          /\ sortedFiles[k].className \in Range(sortedFiles[j].dependencies)

\* C4: when two files register the same name and the name is required, the
\* final list holds it once, bound to the file that was discovered first.
C4_FirstDiscoveredFileWins ==
    pc = "done" =>
        \A n \in ClassNames :
            (Cardinality(DeclaringPlaces(n)) >= 2 /\ n \in Range(requiredClasses)) =>
                /\ CountOf(sortedFiles, n) = 1
                /\ \A i \in DeclaringPlaces(n) :
                      sortedFiles[PlaceOf(sortedFiles, n)].filePath = Discovery[i].path
                      => \A j \in DeclaringPlaces(n) : i <= j

\* C6: started from an indexed class whose registration declares no
\* dependency, graph building returns that class's file alone and that class
\* alone.
C6_NoDependencyClassAlone ==
    (/\ pc = "merge"
     /\ BoundContent(entryClassName).kind = "define"
     /\ BoundContent(entryClassName).dependencies = << >>) =>
        /\ Len(requiredFiles) = 1
        /\ requiredFiles[1].className = entryClassName
        /\ requiredFiles[1].filePath = IndexGet(fileIndex, entryClassName).path
        /\ requiredClasses = << entryClassName >>

\* graph building has returned for such an entry class, with other classes
\* indexed beside it
C6_Witness ==
    /\ pc = "merge"
    /\ BoundContent(entryClassName).kind = "define"
    /\ BoundContent(entryClassName).dependencies = << >>
    /\ Len(fileIndex) >= 2
    /\ Len(requiredFiles) = 1

\* name starts with the characters of p followed by a '.'
StartsWithThenDot(name, p) ==
    /\ Len(name) >= Len(p) + 1
    /\ \A i \in 1..Len(p) : name[i] = p[i]
    /\ name[Len(p) + 1] = "."

\* the names a declared dependency stands for, among the names of keys
StandsFor(dep, keys) ==
    IF Len(dep) >= 2 /\ dep[Len(dep) - 1] = "." /\ dep[Len(dep)] = "*"
    THEN { k \in keys : StartsWithThenDot(k, SubSeq(dep, 1, Len(dep) - 2)) }
    ELSE { dep }

\* the indexed classes the registration of className leads to directly
IndexedDependencies(className) ==
    LET keys == { fileIndex[i].className : i \in 1..Len(fileIndex) }
        declared == Range(BoundContent(className).dependencies)
    IN  UNION { StandsFor(dep, keys) : dep \in declared } \cap keys

\* the indexed classes reached from the entry class through indexed classes
RECURSIVE IndexedReach(_, _)
IndexedReach(S, k) ==
    IF k = 0 THEN S
    ELSE LET R == IndexedReach(S, k - 1)
         IN  R \cup UNION { IndexedDependencies(c) : c \in R }

ReachableIndexed ==
    IF IndexHas(fileIndex, entryClassName)
    THEN IndexedReach({ entryClassName }, Len(fileIndex))
    ELSE {}

\* C10: a dequeued name that is not in the index is added neither to the
\* required classes nor to the required files, and the worklist goes on: when
\* graph building returns, every indexed class reachable from the entry class
\* is required.
C10_UnresolvedNameIsSkipped ==
    /\ pc \in { "graph", "merge" } =>
          /\ unresolved \cap Range(requiredClasses) = {}
          /\ \A i \in 1..Len(requiredFiles) : requiredFiles[i].className \notin unresolved
          /\ \A n \in unresolved : ~IndexHas(fileIndex, n)
    /\ pc = "merge" => ReachableIndexed \subseteq Range(requiredClasses)

\* a required file names an unresolved dependency before a dependency that was
\* resolved and included after it
C10_Witness ==
    /\ pc = "merge"
    /\ \E f \in Range(requiredFiles) :
          \E i, j \in 1..Len(f.dependencies) :
              /\ i < j
              /\ f.dependencies[i] \in unresolved
              /\ f.dependencies[j] \in Range(requiredClasses)
              /\ f.dependencies[j] # entryClassName

\* ---- a build of two classes that depend on each other ----
MutuallyDependent(f) ==
    \E p, q \in Paths :
        /\ f[p].kind = "define" /\ f[p].className = nA
        /\ nB \in Range(f[p].dependencies)
        /\ f[q].kind = "define" /\ f[q].className = nB
        /\ nA \in Range(f[q].dependencies)

InitCycle ==
    /\ files \in { f \in FileSystems : MutuallyDependent(f) }
    /\ entryFile = EntryFile("application", nA)
    /\ HealthyDisk
    /\ entryClassName = << >>
    /\ pc = "index"
    /\ sortInput = << >> /\ finalJs = << >> /\ finalCss = << >>
    /\ wDependencies = << >> /\ wKeys = << >>
    /\ configObject = << >>
    /\ aExtFs = NoExt /\ aForceMinimalCore = FALSE
    /\ NoCalls
    /\ page = NoPage
    /\ Blank

\* buildExtApp awaits each step in turn and runs to its end
SpecCycle == InitCycle /\ [][Next]_vars /\ WF_vars(Next)

\* C5: with N.A depending on N.B and N.B on N.A, graph building from N.A and
\* sorting both end, and the final list holds N.A once and N.B once.
C5_CycleTerminatesWithEachOnce ==
    <>(/\ pc = "done"
       /\ CountOf(sortedFiles, nA) = 1
       /\ CountOf(sortedFiles, nB) = 1)

\* the build of a cycle has ended, and the sorter met the cycle
C5_Witness ==
    /\ pc = "done"
    /\ MutuallyDependent(files)
    /\ dropped # {}
    /\ CountOf(sortedFiles, nA) = 1 /\ CountOf(sortedFiles, nB) = 1

\* C7: expandWildcardDependencies returns the non-wildcard dependencies as
\* they are and, for a dependency P.*, exactly the indexed names that start
\* with P followed by a '.'.
C7_WildcardExpansion ==
    pc = "wilddone" =>
        Range(wExpanded) =
            UNION { StandsFor(dep, Range(wKeys)) : dep \in Range(wDependencies) }

\* A.* was expanded against an index holding A.A and AA: A.A alone came out
C7_Witness ==
    /\ pc = "wilddone"
    /\ wDependencies = << << "A", ".", "*" >> >>
    /\ Range(wKeys) = { << "A", ".", "A" >>, << "A", "A" >> }
    /\ wExpanded = << << "A", ".", "A" >> >>

\* C8: two builds with the same final JS and CSS get the same id of 8
\* characters; the manifest id, the output sub-directory and the js path
\* prefix are that id.
C8_BuildIdOfContentOnly ==
    /\ \A i, j \in 1..Len(runs) :
          (runs[i].js = runs[j].js /\ runs[i].css = runs[j].css)
              => runs[i].id = runs[j].id
    /\ pc = "done" =>
          /\ Len(buildId) = 8
          /\ manifest.id = buildId
          /\ manifest.js[1].path = << buildId, "app.js" >>
          /\ << "build", buildId, "app.js" >> \in written

\* two builds at different times ended with the same final JS and CSS
C8_Witness ==
    /\ pc = "done"
    /\ Len(runs) = 2
    /\ runs[1].js = runs[2].js /\ runs[1].css = runs[2].css
    /\ runs[1].js # << >>
    /\ runs[1].created # runs[2].created

\* C9: the sorter visits the class names of the non-core files it was given
\* and no other name, follows an edge only to such a name, and returns
\* exactly those files.
C9_SortGraphHasOnlyGivenNodes ==
    /\ \A i \in 1..Len(stack) :
          /\ stack[i].className \in GivenNames
          /\ Range(stack[i].dependencies) \subseteq GivenNames
          /\ \A dep \in Range(stack[i].dependencies) :
                DependsOn(stack[i].className, dep)
    /\ visiting \cup sVisited \subseteq GivenNames
    /\ \A i \in 1..Len(sortedRegular) : sortedRegular[i].className \in GivenNames
    /\ Sorted =>
          /\ sVisited = GivenNames
          /\ { f.className : f \in { g \in Range(sortedFiles) : ~g.isCore } }
                = GivenNames

\* a sorted list one of whose files names a dependency that was not given
C9_Witness ==
    /\ Sorted
    /\ Len(sortedFiles) >= 2
    /\ \E f \in GivenRegular : \E dep \in Range(f.dependencies) : dep \notin GivenNames

(***************************************************************************)
(* buildExtApp on any entry file.                                           *)
(***************************************************************************)
\* the file systems that declare at most one dependency
SmallFileSystems ==
    { [p \in Paths |-> g[PosOf(p)]] : g \in ContentsUpTo(Len(Discovery), 1) }

InitEntry ==
    /\ files \in SmallFileSystems
    /\ entryFile \in EntryFiles
    /\ HealthyDisk
    /\ entryClassName = << >>
    /\ pc = "index"
    /\ sortInput = << >> /\ finalJs = << >> /\ finalCss = << >>
    /\ wDependencies = << >> /\ wKeys = << >>
    /\ configObject = << >>
    /\ aExtFs = NoExt /\ aForceMinimalCore = FALSE
    /\ NoCalls
    /\ page = NoPage
    /\ Blank

SpecEntry == InitEntry /\ [][Next]_vars

\* the entry file gives no class to start from
NoStartingClass ==
    \/ entryFile.kind \in { "missing", "unreadable", "unparsable", "plain" }
    \/ entryFile.kind = "application" /\ entryFile.name = << >>

\* C11: when the entry file gives no class to start from (this includes an
\* Ext.application call without extend), the build fails before graph
\* building and no later stage runs.
C11_NoStartingClassIsFatal ==
    NoStartingClass => pc \in { "index", "failed" }

\* C12: a write error on any output artifact the build writes (app.js,
\* app.css, the manifest, bootstrap.js, index.html) makes the build fail
\* with a non-zero exit: no build ends successfully on a disk where a write
\* it attempted failed.
C12_WriteErrorFailsTheBuild ==
    \A a \in unwritable :
        (a = "app.css" => finalCss # << >>)
            => (pc \in { "done", "failed" } => pc = "failed" /\ ExitCode = 1)

(***************************************************************************)
(* buildFileIndex on a disk where reads and directory listings may fail.    *)
(***************************************************************************)
\* line 439: fs.readFile may throw on any of the files
IndexFileSystems ==
    { [p \in Paths |-> IF p \in U THEN NoDefine("unreadable") ELSE f[p]] :
        f \in SmallFileSystems, U \in SUBSET Paths }

InitIndex ==
    /\ files \in IndexFileSystems
    /\ entryFile = EntryFile("application", nA)
    /\ unlistable \in SUBSET Dirs
    /\ unwritable = {}
    /\ entryClassName = << >>
    /\ pc = "index"
    /\ sortInput = << >> /\ finalJs = << >> /\ finalCss = << >>
    /\ wDependencies = << >> /\ wKeys = << >>
    /\ configObject = << >>
    /\ aExtFs = NoExt /\ aForceMinimalCore = FALSE
    /\ NoCalls
    /\ page = NoPage
    /\ Blank

NextIndex == IndexFile

SpecIndex == InitIndex /\ [][NextIndex]_vars

\* C13: indexing never aborts the build: whatever file cannot be read or
\* parsed and whatever directory cannot be listed, buildFileIndex goes on and
\* its index holds every class a readable file declares.
C13_IndexingNeverAborts ==
    /\ pc # "failed"
    /\ idxPos = Len(Discovery) =>
          \A p \in Paths :
              files[p].kind = "define" => IndexHas(fileIndex, files[p].className)

(***************************************************************************)
(* buildExtApp up to the end of buildDependencyGraphFromEntry.              *)
(***************************************************************************)
InitGraph ==
    /\ files \in FileSystems
    /\ entryFile = EntryFile("application", nA)
    /\ HealthyDisk
    /\ entryClassName = << >>
    /\ pc = "index"
    /\ sortInput = << >> /\ finalJs = << >> /\ finalCss = << >>
    /\ wDependencies = << >> /\ wKeys = << >>
    /\ configObject = << >>
    /\ aExtFs = NoExt /\ aForceMinimalCore = FALSE
    /\ NoCalls
    /\ page = NoPage
    /\ Blank

\* ---- an entry file whose Ext.application call declares dependencies ----
MaxEntryDeps == 2

EntryApplications ==
    { ApplicationCall(n, deps) :
        n \in EntryNames,
        deps \in { d \in SeqsUpTo(DepNames, MaxEntryDeps) : NoDup(d) } }

InitApp ==
    /\ files \in SmallFileSystems
    /\ entryFile \in EntryApplications
    /\ HealthyDisk
    /\ entryClassName = << >>
    /\ pc = "index"
    /\ sortInput = << >> /\ finalJs = << >> /\ finalCss = << >>
    /\ wDependencies = << >> /\ wKeys = << >>
    /\ configObject = << >>
    /\ aExtFs = NoExt /\ aForceMinimalCore = FALSE
    /\ NoCalls
    /\ page = NoPage
    /\ Blank

NextApp == IndexFile \/ AddCoreFiles \/ GraphStep \/ GraphFinish

SpecApp == InitApp /\ [][NextApp]_vars

NextGraph == IndexFile \/ AddCoreFiles \/ GraphStep \/ GraphFinish

\* buildExtApp awaits each step in turn
SpecGraph == InitGraph /\ [][NextGraph]_vars /\ WF_vars(NextGraph)

\* the names that were looked up in the index, found there and expanded
Expanded == { n \in Range(finalized) : IndexHas(fileIndex, n) }

SpecSortFair == InitSort /\ [][NextSort]_vars /\ WF_vars(NextSort)

\* what the sorter returned holds every given file exactly once, and respects
\* every dependency between two given files but for the dropped edges
SortedAsFarAsPossible ==
    /\ Len(sortedFiles) = Len(sortInput)
    /\ \A f \in Range(sortInput) : CountOf(sortedFiles, f.className) = 1
    /\ \A a, b \in GivenNames :
          (DependsOn(a, b) /\ << a, b >> \notin dropped)
              => PlaceOf(sortedFiles, b) < PlaceOf(sortedFiles, a)

\* C15: on any input, cyclic or not, the sorter returns; what it returns
\* holds every given file exactly once; and every dependency between two
\* given files is respected but for the edges whose target was met again
\* while on the active path.
C15_SortOfAnyInput ==
    /\ <>Sorted
    /\ [](Sorted => SortedAsFarAsPossible)

\* a cyclic input has been sorted, and the edge that was dropped is the one
\* the returned order does not respect
C15_Witness ==
    /\ Sorted /\ ~Acyclic
    /\ \E a, b \in GivenNames :
          /\ a # b /\ DependsOn(a, b) /\ << a, b >> \in dropped
          /\ PlaceOf(sortedFiles, a) < PlaceOf(sortedFiles, b)

\* C16: when the entry class name is not in the index, the required files
\* that buildDependencyGraphFromEntry returns are exactly the entry file,
\* with no dependency.
C16_EntryFileAloneWhenNotIndexed ==
    (pc \notin { "index", "graph", "failed" } /\ ~IndexHas(fileIndex, entryClassName))
        => /\ Len(requiredFiles) = 1
           /\ requiredFiles[1].className = entryClassName
           /\ requiredFiles[1].dependencies = << >>

\* the role keyword of a role-categorized list and of the main-view setting
RoleOf(key) ==
    CASE key = "controllers" -> "controller" [] key = "models" -> "model"
      [] key = "views" -> "view" [] key = "stores" -> "store"
      [] key = "profiles" -> "profile" [] key = "mainView" -> "view"

RoleKeys == { "controllers", "models", "views", "stores", "profiles" }

\* the application namespace of the config objects
AppNamespace == << "N" >>

\* a shorthand resolved against the application namespace: '.Foo' and 'Foo'
\* become appNamespace.role.Foo, a name holding a namespace stays as it is
Resolved(shorthand, role, appNamespace) ==
    IF Head(shorthand) = "." THEN appNamespace \o << ".", role >> \o shorthand
    ELSE IF "." \notin Range(shorthand)
         THEN appNamespace \o << ".", role, "." >> \o shorthand
         ELSE shorthand

\* the strings, not blank, that the config object gives under a key: the
\* elements of its array, or its string literal
GivenUnder(configObj, key) ==
    { str \in Range(findObjectProperty(configObj, key).strings) : KeepsDep(str) }

\* C17: every entry of the role lists controllers, models, views, stores and
\* profiles, and the main-view setting, is in the extracted dependency list
\* under its name resolved against the application namespace.
C17_ShorthandsAreResolved ==
    pc = "extracted" =>
        /\ \A key \in RoleKeys :
              findObjectProperty(configObject, key).isArray =>
                 \A str \in GivenUnder(configObject, key) :
                    Resolved(str, RoleOf(key), AppNamespace) \in Range(extracted)
        /\ ~findObjectProperty(configObject, "mainView").isArray =>
              \A str \in GivenUnder(configObject, "mainView") :
                 Resolved(str, RoleOf("mainView"), AppNamespace) \in Range(extracted)

\* the keys whose value is one name, and the keys whose value is a list
SingleKeys == { "extend", "overrides" }
ListKeys == { "requires", "uses" } \cup RoleKeys

\* C18: the extracted list holds the extend name, the overrides name, every
\* string of requires and of uses and every string of the five role lists,
\* and holds no string twice.
C18_ExtractedListIsCompleteAndUnique ==
    pc = "extracted" =>
        /\ \A key \in SingleKeys :
              ~findObjectProperty(configObject, key).isArray =>
                 GivenUnder(configObject, key) \subseteq Range(extracted)
        /\ \A key \in ListKeys :
              findObjectProperty(configObject, key).isArray =>
                 GivenUnder(configObject, key) \subseteq Range(extracted)
        /\ NoDup(extracted)

\* the bundle candidates under the framework root that can be read
ReadableBundles == { i \in 1..Len(BundlePaths) : aExtFs.bundles[i] = "ok" }

IsBundleFile(f) == f.className[1] = "__CORE_BUNDLE_"
IsBootstrapFile(f) == f.className = << "__CORE_MINIMAL_BOOTSTRAP" >>

\* C19: with forceMinimalCore false and a readable bundle, the result is the
\* first readable candidate alone, with priority 0; a synthesized bootstrap
\* is returned only otherwise; individual core files are returned only if
\* moreover the bootstrap yields nothing; and the list returned is in
\* ascending order of priority.
C19_CoreFilePreferenceOrder ==
    pc = "cored" =>
        /\ (~aForceMinimalCore /\ ReadableBundles # {}) =>
              \E i \in ReadableBundles :
                 /\ \A j \in ReadableBundles : i <= j
                 /\ Len(coreFiles) = 1
                 /\ IsBundleFile(coreFiles[1])
                 /\ coreFiles[1].filePath = BundlePaths[i]
                 /\ coreFiles[1].className = << "__CORE_BUNDLE_", BundleNames[i] >>
                 /\ coreFiles[1].priority = 0
        /\ (\E k \in 1..Len(coreFiles) : ~IsBundleFile(coreFiles[k])) =>
              (aForceMinimalCore \/ ReadableBundles = {})
        /\ (\E k \in 1..Len(coreFiles) :
                ~IsBundleFile(coreFiles[k]) /\ ~IsBootstrapFile(coreFiles[k])) =>
              createMinimalExtJSBootstrap(aExtFs) = ""
        /\ \A i, j \in 1..Len(coreFiles) :
              i < j => coreFiles[i].priority <= coreFiles[j].priority

\* the first candidate cannot be read, the second and the fourth can, and
\* the second is the core file returned
C19_Witness ==
    /\ pc = "cored" /\ ~aForceMinimalCore
    /\ aExtFs.bundles = << "unreadable", "ok", "absent", "ok", "absent" >>
    /\ coreFiles = << CoreFile(<< "__CORE_BUNDLE_", "ext_all_js" >>,
                               "/ext/build/ext-all.js", 0) >>

\* C20: with no bundle, no critical file and no core file under the
\* framework root, the list of core files returned is empty.
C20_NothingFoundGivesEmptyList ==
    (pc = "cored" /\ aExtFs = NoExt) => coreFiles = << >>

\* the merge of core files and resolved files (step 7) is done
Merged == pc \in { "sort", "concat", "css", "write", "done" }

\* the file of the given path stands in the list
HoldsPath(list, filePath) == \E i \in 1..Len(list) : list[i].filePath = filePath

\* C21: with a prebuilt bundle as the core, every non-core file of the final
\* list (merged, and sorted) is of application origin; with the synthesized
\* bootstrap as the core, every framework file that was resolved is kept.
C21_FrameworkFilesOnlyWithoutBundle ==
    Merged =>
        /\ (\E k \in 1..Len(coreFiles) : IsBundleFile(coreFiles[k])) =>
              /\ \A i \in 1..Len(finalUniqueFiles) :
                    ~finalUniqueFiles[i].isCore => ~finalUniqueFiles[i].isExtJS
              /\ \A i \in 1..Len(sortedFiles) :
                    ~sortedFiles[i].isCore => ~sortedFiles[i].isExtJS
        /\ (\E k \in 1..Len(coreFiles) : IsBootstrapFile(coreFiles[k])) =>
              \A f \in Range(requiredFiles) :
                 f.isExtJS =>
                    /\ HoldsPath(finalUniqueFiles, f.filePath)
                    /\ Sorted => HoldsPath(sortedFiles, f.filePath)

\* a build on a bundle has resolved a framework file and has sorted its
\* final list, which holds application files
C21_Witness ==
    /\ Sorted
    /\ \E k \in 1..Len(coreFiles) : IsBundleFile(coreFiles[k])
    /\ \E f \in Range(requiredFiles) : f.isExtJS
    /\ \E i \in 1..Len(sortedFiles) : ~sortedFiles[i].isCore

\* the place of a position of buildExtApp in the order of its stages
StageOf(p) ==
    CASE p = "index" -> 1 [] p = "graph" -> 2 [] p = "merge" -> 3
      [] p = "sort" -> 4 [] p = "concat" -> 5 [] p = "css" -> 6
      [] p = "write" -> 7 [] OTHER -> 8

\* what a stage has produced is there only when the stage before it is complete
StagesInOrder ==
    /\ (entryClassName # << >> \/ coreFiles # << >> \/ queue # << >>
            \/ finalized # << >>)
          => idxPos = Len(Discovery)
    /\ (finalUniqueFiles # << >> \/ sortInput # << >>)
          => (queue = << >> /\ processing = {} /\ coreFiles # << >>)
    /\ (keyPos > 0 \/ stack # << >> \/ sortedRegular # << >>)
          => sortInput = finalUniqueFiles /\ finalUniqueFiles # << >>
    /\ sortedFiles # << >>
          => (stack = << >> /\ keyPos = Len(GraphKeys(sortInput))
                /\ Len(sortedFiles) = Len(finalUniqueFiles))
    /\ bundle # << >> => sortedFiles # << >>
    /\ finalJs # << >> => bundle # << >>
    /\ finalCss # << >> => finalJs # << >>
    /\ (buildId # << >> \/ manifest # << >> \/ written # {})
          => (finalJs # << >> /\ pc \in { "done", "failed" })

\* a step that changes what a stage produces is a step of that stage, and
\* the build never goes back to an earlier stage
StageSteps ==
    /\ StageOf(pc) <= StageOf(pc')
    /\ fileIndex' # fileIndex => pc = "index"
    /\ coreFiles' # coreFiles => (pc = "index" /\ pc' \in { "graph", "failed" })
    /\ (queue' # queue \/ requiredFiles' # requiredFiles \/ visited' # visited)
          => (pc \in { "index", "graph" } /\ pc' \in { "graph", "merge" })
    /\ finalUniqueFiles' # finalUniqueFiles => (pc = "merge" /\ pc' = "sort")
    /\ (stack' # stack \/ sortedRegular' # sortedRegular \/ sortedFiles' # sortedFiles)
          => pc = "sort"
    /\ (bundle' # bundle \/ finalJs' # finalJs) => (pc = "concat" /\ pc' = "css")
    /\ finalCss' # finalCss => (pc = "css" /\ pc' = "write")
    /\ (buildId' # buildId \/ manifest' # manifest \/ written' # written)
          => pc = "write"

\* C22: the stages of buildExtApp run one after the other: indexing is
\* complete before the core files are resolved and graph building starts,
\* graph building before merging and sorting, sorting before assembly,
\* assembly before minification, and the build id, the artifacts and the
\* manifest come only after the final JS and CSS are complete.
C22_StagesRunInSequence == []StagesInOrder /\ [][StageSteps]_vars

\* a build that required two files has written its artifacts
C22_Witness ==
    /\ pc = "done" /\ written # {} /\ manifest # << >>
    /\ Len(requiredFiles) = 2 /\ Len(fileIndex) = 3

\* every call of buildExtApp has returned
AllReturned == \A b \in Calls : builds[b].pc = "returned"

\* C23: the content cache and the name-to-file map belong to one build: a
\* call of buildExtApp never takes from the content cache an entry that
\* another call wrote, no call writes to a cache while another call that
\* wrote to it is still running, and when the calls have returned the
\* caches hold nothing.
C23_CachesBelongToOneBuild ==
    /\ \A b \in Calls : builds[b].takenFrom \in { 0, b }
    /\ \A b \in Calls :
          (fileContentCache.writer = b /\ builds[b].pc # "returned")
             => \A c \in Calls \ { b } :
                   builds[c].pc \in { "notcalled", "index", "returned" }
    /\ AllReturned => (fileContentCache = NoEntry /\ globalClassToFileMap = NoEntry)

\* C24: the guard wraps Ext.define at most once; through the wrapper the
\* original Ext.define is invoked at most once for a class name; and a call
\* for a name already registered warns, invokes the callback given with the
\* class registered before, and returns that class.
C24_GuardRegistersEachNameOnce ==
    pc = "page" =>
        /\ page.wraps <= 1
        /\ \A n \in PageNames : page.originalCalls[n] <= 1
        /\ page.last.duplicate =>
              /\ page.last.warned
              /\ page.last.callback => page.last.callbackThis = "class"
              /\ page.last.result = "existing"

\* the list of dependencies that the file of a RequiredFile record declares
DeclaredBy(file) == files[file.filePath].dependencies

\* C25: no RequiredFile record of the graph builder holds a wildcard name in
\* its dependency list, and no list holds a name twice.
C25_StoredDependenciesAreExpanded ==
    \A i \in 1..Len(requiredFiles) :
        /\ \A k \in 1..Len(requiredFiles[i].dependencies) :
              ~IsWildcard(requiredFiles[i].dependencies[k])
        /\ NoDup(requiredFiles[i].dependencies)

\* a record is stored for a file that declares a wildcard and, next to it, a
\* name that the wildcard matches
C25_Witness ==
    \E i \in 1..Len(requiredFiles) :
        /\ requiredFiles[i].filePath \in DOMAIN files
        /\ \E k \in 1..Len(DeclaredBy(requiredFiles[i])) :
              /\ IsWildcard(DeclaredBy(requiredFiles[i])[k])
              /\ \E j \in 1..Len(DeclaredBy(requiredFiles[i])) :
                    /\ j # k
                    /\ DeclaredBy(requiredFiles[i])[j] \in
                          Range(WildcardMatches(DeclaredBy(requiredFiles[i])[k],
                                                IndexKeys(fileIndex)))
        /\ Len(requiredFiles[i].dependencies) >= 2

\* the index entries that point to the file of a path
EntriesOf(path) == { i \in 1..Len(fileIndex) : fileIndex[i].path = path }

\* the discovered files that the walk has gone through
Walked == { Discovery[i] : i \in 1..idxPos }

\* C26: a file without a registration call with a literal class name has an
\* index entry only when it was indexed as framework origin, and then under
\* the name inferred from its path; an application file without a
\* registration name has no entry.
C26_PathInferenceOnlyForFramework ==
    \A d \in Walked :
        files[d.path].kind # "define" =>
            \A i \in EntriesOf(d.path) :
                /\ d.isExtJS
                /\ fileIndex[i].isExtJS
                /\ fileIndex[i].className = InferredName(d.path)

\* the walk is over: a framework file without a registration call has its
\* inferred entry, an application file without one has none
C26_Witness ==
    /\ idxPos = Len(Discovery)
    /\ \E d \in Walked :
          /\ d.isExtJS /\ files[d.path].kind = "plain"
          /\ EntriesOf(d.path) # {}
    /\ \E d \in Walked :
          /\ ~d.isExtJS /\ files[d.path].kind = "plain"
          /\ EntriesOf(d.path) = {}

\* the loop of buildDependencyGraphFromEntry stands at the head of an iteration
AtLoopHead == pc = "graph" /\ queue # << >>

\* the in-progress set between processing.add (line 1105) and
\* processing.delete (lines 1131, 1144, 1212) of the iteration that begins
InProgressDuring == processing \cup { Head(queue) }

\* one iteration of the loop is taken
LoopIteration == AtLoopHead /\ finalized' # finalized

\* C27: in the worklist loop the queue holds no name twice and no visited
\* name; the in-progress set lies within visited, has at most one element and
\* is empty when an iteration starts; so no dequeued name meets the
\* 'already visited' skip or the circular-dependency diagnostic.
C27_WorklistInvariants ==
    /\ [](pc = "graph" =>
            /\ NoDup(queue)
            /\ \A i \in 1..Len(queue) : ~VisitedHas(visited, queue[i])
            /\ processing = {}
            /\ processing \subseteq visited
            /\ AtLoopHead => ~SkipDequeued(Head(queue)))
    /\ [][LoopIteration =>
            /\ Cardinality(InProgressDuring) <= 1
            /\ InProgressDuring \subseteq visited']_vars

\* two files are required, one of them depends on a name visited before it,
\* and the loop goes on
C27_Witness ==
    /\ AtLoopHead
    /\ Len(requiredFiles) >= 2
    /\ \E i \in 1..Len(requiredFiles) :
          \E k \in 1..Len(requiredFiles[i].dependencies) :
              /\ requiredFiles[i].dependencies[k] \in visited
              /\ requiredFiles[i].dependencies[k] # requiredFiles[i].className

\* buildDependencyGraphFromEntry has returned (line 1266)
GraphReturned == pc = "merge"

\* a returned record stands for the class: it bears its name, or it holds
\* the file the index gives for it
ProvidedBy(className) ==
    { i \in 1..Len(requiredFiles) :
        \/ requiredFiles[i].className = className
        \/ /\ IndexHas(fileIndex, className)
           /\ requiredFiles[i].filePath = IndexGet(fileIndex, className).path }

\* C28: what buildDependencyGraphFromEntry returns agrees: every name of
\* requiredClasses has a record in requiredFiles that provides it, and every
\* record of requiredFiles bears a name of requiredClasses.
C28_ClassesAndFilesCorrespond ==
    GraphReturned =>
        /\ \A k \in 1..Len(requiredClasses) : ProvidedBy(requiredClasses[k]) # {}
        /\ \A i \in 1..Len(requiredFiles) :
              requiredFiles[i].className \in Range(requiredClasses)

\* the artifact paths a manifest lists (lines 1739-1752)
ManifestPaths(m) ==
    { m.js[i].path : i \in 1..Len(m.js) } \cup { m.css[i].path : i \in 1..Len(m.css) }

\* the href and src values updateIndexHtml injects (lines 1843-1849)
IndexHtmlReferences(m) ==
    { m.css[i].path : i \in 1..Len(m.css) } \cup { m.js[i].path : i \in 1..Len(m.js) }

\* the file a path of the manifest names: the manifest and index.html lie in
\* buildDir, and so do the directories of the build ids (lines 1979-1980)
FileOf(path) == << "build" >> \o path

WasWritten(artifact) == ArtifactPath(artifact, buildId) \in written

\* C29: every artifact path in the written manifest, and every reference
\* injected into the written index.html, names a file that the same run of
\* buildExtApp wrote, with compiled CSS or without.
C29_ManifestNamesWrittenFiles ==
    pc = "done" =>
        /\ WasWritten("manifest") =>
              \A path \in ManifestPaths(manifest) : FileOf(path) \in written
        /\ WasWritten("index.html") =>
              \A path \in IndexHtmlReferences(manifest) : FileOf(path) \in written

\* the classes that the Ext.application call of the entry file declares: its
\* dependency names, a wildcard standing for the index keys it matches
DeclaredByEntry ==
    Range(expandWildcardDependencies(entryFile.dependencies, IndexKeys(fileIndex)))

\* C30: every dependency that the Ext.application call of the entry file
\* declares itself (requires, wildcards included, and mainView) and that the
\* index holds is in the required classes when the graph is built.
C30_EntryDependenciesAreRequired ==
    (GraphReturned /\ entryFile.kind = "application") =>
        \A n \in DeclaredByEntry :
            IndexHas(fileIndex, n) => n \in Range(requiredClasses)

====
